---- MODULE Spec2Model ----
(***************************************************************************)
(* Kanban board drag-and-drop reordering and the debounced, cancellable    *)
(* entity pickers of react-entity-picker-lab.                              *)
(*                                                                         *)
(* Arrays are sequences; indexes returned by findIndex are 0-based as in   *)
(* the source (-1 = not found), element k of an array is list[k + 1].      *)
(***************************************************************************)
EXTENDS Integers, Sequences, FiniteSets, TLC

(***************************************************************************)
(* Bounds of the model                                                     *)
(***************************************************************************)
NumIssues == 3            \* issues loaded in the board's partition
MaxOrderIn == 3           \* normalizer inputs carry orders 0 .. MaxOrderIn * ORDER_STEP

(***************************************************************************)
(* Program constants                                                       *)
(***************************************************************************)
ORDER_STEP == 1000

Statuses == {"backlog", "todo", "in_progress", "done"}
Views == {"backlog", "sprint"}

\* The three drag-end implementations of the repository.
Variants == {"BoardPage", "BoardColumns", "DemoBoardPage"}

NoId == <<>>              \* null
NoStatus == "none"        \* a patch without a status field / an unresolved status

IssueIds == 1 .. NumIssues
GhostId == NumIssues + 1  \* an id that is not among the loaded issues

\* Identifiers the drag library reports: "status:" + key for a column, or an issue id.
ColumnId(s) == <<"status:", s>>
IssueOverId(n) == <<"issue", n>>
OverIds == {ColumnId(s) : s \in Statuses} \cup {IssueOverId(n) : n \in IssueIds \cup {GhostId}}

VARIABLES
    variant,        \* which board component is mounted
    view,           \* "backlog" | "sprint" (from the route)
    issues,         \* cached issue list of the partition
    activeId,       \* useState activeId (0 = null)
    lastOverIdRef,  \* useRef lastOverIdRef
    gesture,        \* the last drag-end: its inputs, the list it saw, what it emitted
    normIn,         \* the list handed to the normalizer
    normOut,        \* what the client's normalizeOrders returned
    normOutServer,  \* what the server's normalizeOrders returned
    normDone,
    picker,         \* the state of one mounted picker (a record of its hooks)
    scope,          \* the sprintId of the partition the mounted board page shows
    store,          \* the server's issues of one board (rows of the issue table)
    cache,          \* the client's cached list of one partition (query data)
    muts,           \* the mutations started by the client, in order
    fetch,          \* the refetch of the partition's list
    otherStale,     \* the board's other cached partitions were invalidated
    panel,          \* the issue side panel: selected issue, title draft, save timer
    sprintVariant,  \* which of the two versions of BoardsService is deployed
    sprints,        \* the committed rows of the sprint table
    calls,          \* the calls of BoardsService under way, each a transaction
    lastMove,       \* the last move of an issue: its request and the issue before
    table,          \* the rows of the issue table, of every board
    listed,         \* the last call of IssuesService.list and what it returned
    multi,          \* the selection side of one mounted multi-select picker
    issueRows,      \* the rows IssuesService.create has inserted, of every board
    creating,       \* the calls of IssuesService.create under way or ended
    uniqueKey       \* whether the issue table has a unique index on key

boardVars == <<variant, view, issues, activeId, lastOverIdRef, gesture>>
normVars == <<normIn, normOut, normOutServer, normDone>>
pickerVars == <<picker>>
syncVars == <<scope, store, cache, muts, fetch, otherStale, panel>>
serverVars == <<sprintVariant, sprints, calls, lastMove>>
listVars == <<table, listed>>
selectVars == <<multi>>
createVars == <<issueRows, creating, uniqueKey>>
vars == <<boardVars, normVars, pickerVars, syncVars, serverVars, listVars, selectVars,
         createVars>>

\* the state outside one component
exceptBoard == <<normVars, pickerVars, syncVars, serverVars, listVars, selectVars,
    createVars>>
exceptNormalize == <<boardVars, pickerVars, syncVars, serverVars, listVars, selectVars,
    createVars>>
exceptPicker == <<boardVars, normVars, syncVars, serverVars, listVars, selectVars,
    createVars>>
exceptSync == <<boardVars, normVars, pickerVars, serverVars, listVars, selectVars,
    createVars>>
exceptServer == <<boardVars, normVars, pickerVars, listVars, selectVars,
    createVars>>
exceptList == <<boardVars, normVars, pickerVars, syncVars, serverVars, selectVars,
    createVars>>
exceptCreate == <<boardVars, normVars, pickerVars, syncVars, serverVars, listVars, selectVars>>
exceptSelect == <<boardVars, normVars, pickerVars, syncVars, serverVars, listVars,
    createVars>>

(***************************************************************************)
(* Array helpers                                                           *)
(***************************************************************************)
Max(a, b) == IF a >= b THEN a ELSE b

findIndex(list, id) ==
    IF \E i \in 1 .. Len(list) : list[i].id = id
    THEN (CHOOSE i \in 1 .. Len(list) :
             list[i].id = id /\ \A j \in 1 .. (i - 1) : list[j].id # id) - 1
    ELSE -1

find(list, id) == list[findIndex(list, id) + 1]

filterStatus(list, s) == SelectSeq(list, LAMBDA x : x.status = s)
filterNotId(list, id) == SelectSeq(list, LAMBDA x : x.id # id)

\* toNext.splice(at, 0, x)
splice(list, at, x) ==
    SubSeq(list, 1, at) \o <<x>> \o SubSeq(list, at + 1, Len(list))

\* arrayMove of @dnd-kit/sortable: remove the element at `from`, insert it at `to`
arrayMove(list, from, to) ==
    LET without == SubSeq(list, 1, from) \o SubSeq(list, from + 2, Len(list))
    IN  splice(without, to, list[from + 1])

\* list.slice().sort((a, b) => a.order - b.order): a stable sort
RECURSIVE sortByOrder(_)
sortByOrder(list) ==
    IF Len(list) <= 1 THEN list
    ELSE LET front == sortByOrder(SubSeq(list, 1, Len(list) - 1))
             x == list[Len(list)]
             k == Cardinality({i \in 1 .. Len(front) : front[i].order <= x.order})
         IN  splice(front, k, x)

(***************************************************************************)
(* Order Normalizer                                                        *)
(***************************************************************************)
normalizeOrdersSkew(list) ==
    [i \in 1 .. Len(list) |-> [list[i] EXCEPT !.order = i * ORDER_STEP + list[i].order]]

normalizeOrders(list) ==
    [i \in 1 .. Len(list) |-> [list[i] EXCEPT !.order = i * ORDER_STEP]]

(***************************************************************************)
(* Drop Target Resolver                                                    *)
(***************************************************************************)
parseDropStatus(id) ==
    IF id = NoId THEN NoStatus
    ELSE IF id[1] = "status:" THEN id[2] ELSE NoStatus

canShowStatusAll(vw, s) == TRUE

canShowStatus(vw, s) ==
    IF vw = "backlog" THEN s = "backlog" ELSE s # "backlog"

\* scopedIssues.find((x) => x.id === oId) ?? null, as the index of the issue
overIndex(scoped, oId) ==
    IF oId # NoId /\ oId[1] = "issue" THEN findIndex(scoped, oId[2]) ELSE -1

\* let toStatus = parseDropStatus(oId); if (!toStatus) toStatus = overIssue?.status ?? null
resolveStatus(scoped, oId) ==
    IF parseDropStatus(oId) # NoStatus THEN parseDropStatus(oId)
    ELSE IF overIndex(scoped, oId) >= 0 THEN scoped[overIndex(scoped, oId) + 1].status
    ELSE NoStatus

(***************************************************************************)
(* Reorder/Move Engine.  A handler's outcome is whether it handed a patch  *)
(* set to the mutation (called) and that patch set (changes).              *)
(***************************************************************************)
orderPatch(it) == [id |-> it.id, status |-> NoStatus, order |-> it.order]
statusOrderPatch(it) == [id |-> it.id, status |-> it.status, order |-> it.order]

NoCall == [called |-> FALSE, changes |-> <<>>]
Call(ch) == [called |-> TRUE, changes |-> ch]

\* A same-column reorder that takes a missing over issue for the end of the column.
reorderMissingOverAsEnd(scoped, aId, ovIdx, fromStatus) ==
    LET list == sortByOrder(filterStatus(scoped, fromStatus))
        oldIndex == findIndex(list, aId)
        newIndex == IF ovIdx >= 0 THEN findIndex(list, scoped[ovIdx + 1].id)
                    ELSE Len(list) - 1
    IN  IF oldIndex < 0 \/ newIndex < 0 \/ oldIndex = newIndex THEN NoCall
        ELSE LET normalized == normalizeOrders(arrayMove(list, oldIndex, newIndex))
             IN  Call([i \in 1 .. Len(normalized) |-> orderPatch(normalized[i])])

\* BoardPage (routes version), same column: needs an over issue
reorderBoardPage(scoped, aId, ovIdx, fromStatus) ==
    IF ovIdx < 0 THEN NoCall
    ELSE LET list == sortByOrder(filterStatus(scoped, fromStatus))
             oldIndex == findIndex(list, aId)
             newIndex == findIndex(list, scoped[ovIdx + 1].id)
         IN  IF oldIndex < 0 \/ newIndex < 0 \/ oldIndex = newIndex THEN NoCall
             ELSE LET normalized == normalizeOrders(arrayMove(list, oldIndex, newIndex))
                  IN  Call([i \in 1 .. Len(normalized) |-> orderPatch(normalized[i])])

\* BoardColumns, same column: without an over issue the drop is a move to the end
reorderBoardColumns(scoped, aId, ovIdx, fromStatus) ==
    LET list == sortByOrder(filterStatus(scoped, fromStatus))
        oldIndex == findIndex(list, aId)
    IN  IF oldIndex < 0 THEN NoCall
        ELSE LET newIndex == IF ovIdx >= 0 THEN findIndex(list, scoped[ovIdx + 1].id)
                             ELSE Len(list) - 1
             IN  IF newIndex < 0 \/ oldIndex = newIndex THEN NoCall
                 ELSE LET normalized == normalizeOrders(arrayMove(list, oldIndex, newIndex))
                      IN  Call([i \in 1 .. Len(normalized) |-> orderPatch(normalized[i])])

\* A cross-column move that inserts the moved issue behind the over issue.
crossColumnMoveAfter(scoped, aId, ovIdx, fromStatus, toStatus) ==
    LET fromWithout == filterNotId(sortByOrder(filterStatus(scoped, fromStatus)), aId)
        moved == [find(scoped, aId) EXCEPT !.status = toStatus]
        toNext0 == filterNotId(sortByOrder(filterStatus(scoped, toStatus)), aId)
        insertAt == IF ovIdx >= 0
                    THEN findIndex(toNext0, scoped[ovIdx + 1].id) + 1
                    ELSE 0
        normalizedTo == normalizeOrders(splice(toNext0, insertAt, moved))
        normalizedFrom == normalizeOrders(fromWithout)
    IN  Call([i \in 1 .. Len(normalizedTo) |-> statusOrderPatch(normalizedTo[i])]
             \o [i \in 1 .. Len(normalizedFrom) |-> orderPatch(normalizedFrom[i])])

\* A cross-column move that leaves the source column as it was.
crossColumnMoveToOnly(scoped, aId, ovIdx, fromStatus, toStatus) ==
    LET moved == [find(scoped, aId) EXCEPT !.status = toStatus]
        toNext0 == filterNotId(sortByOrder(filterStatus(scoped, toStatus)), aId)
        insertAt == IF ovIdx >= 0
                    THEN Max(0, findIndex(toNext0, scoped[ovIdx + 1].id))
                    ELSE Len(toNext0)
        normalizedTo == normalizeOrders(splice(toNext0, insertAt, moved))
    IN  Call([i \in 1 .. Len(normalizedTo) |-> statusOrderPatch(normalizedTo[i])])

\* A cross-column move that also renumbers the columns it does not touch.
crossColumnMoveRenumbersAll(scoped, aId, ovIdx, fromStatus, toStatus) ==
    LET fromWithout == filterNotId(sortByOrder(filterStatus(scoped, fromStatus)), aId)
        moved == [find(scoped, aId) EXCEPT !.status = toStatus]
        toNext0 == filterNotId(sortByOrder(filterStatus(scoped, toStatus)), aId)
        insertAt == IF ovIdx >= 0
                    THEN Max(0, findIndex(toNext0, scoped[ovIdx + 1].id))
                    ELSE Len(toNext0)
        normalizedTo == normalizeOrders(splice(toNext0, insertAt, moved))
        normalizedFrom == normalizeOrders(fromWithout)
        others == normalizeOrders(SelectSeq(scoped,
                      LAMBDA x : x.status # fromStatus /\ x.status # toStatus))
    IN  Call([i \in 1 .. Len(normalizedTo) |-> statusOrderPatch(normalizedTo[i])]
             \o [i \in 1 .. Len(normalizedFrom) |-> orderPatch(normalizedFrom[i])]
             \o [i \in 1 .. Len(others) |-> orderPatch(others[i])])

\* BoardPage and BoardColumns, cross column: remove + insert (the two are the same code)
crossColumnMove(scoped, aId, ovIdx, fromStatus, toStatus) ==
    LET fromList == sortByOrder(filterStatus(scoped, fromStatus))
        toList == sortByOrder(filterStatus(scoped, toStatus))
        fromWithout == filterNotId(fromList, aId)
        moved == [find(scoped, aId) EXCEPT !.status = toStatus]
        toNext0 == filterNotId(toList, aId)
        insertAt == IF ovIdx >= 0
                    THEN Max(0, findIndex(toNext0, scoped[ovIdx + 1].id))
                    ELSE Len(toNext0)
        toNext == IF insertAt >= 0 /\ insertAt <= Len(toNext0)
                  THEN splice(toNext0, insertAt, moved)
                  ELSE Append(toNext0, moved)
        normalizedTo == normalizeOrders(toNext)
        normalizedFrom == normalizeOrders(fromWithout)
    IN  Call([i \in 1 .. Len(normalizedTo) |-> statusOrderPatch(normalizedTo[i])]
             \o [i \in 1 .. Len(normalizedFrom) |-> orderPatch(normalizedFrom[i])])

\* onDragEnd of BoardPage (routes version): e.over is used as it is
onDragEndBoardPage(iss, vw, aId, oId) ==
    LET scoped == sortByOrder(iss)
    IN  IF oId = NoId THEN NoCall
        ELSE IF findIndex(scoped, aId) < 0 THEN NoCall
        ELSE IF resolveStatus(scoped, oId) = NoStatus THEN NoCall
        ELSE IF ~canShowStatus(vw, resolveStatus(scoped, oId)) THEN NoCall
        ELSE LET toStatus == resolveStatus(scoped, oId)
                 fromStatus == find(scoped, aId).status
                 ovIdx == overIndex(scoped, oId)
             IN  IF fromStatus = toStatus
                 THEN reorderBoardPage(scoped, aId, ovIdx, fromStatus)
                 ELSE crossColumnMove(scoped, aId, ovIdx, fromStatus, toStatus)

\* onDragEnd of BoardColumns: oId is rawOverId ?? lastOverIdRef.current
onDragEndBoardColumns(iss, vw, aId, oId) ==
    LET scoped == sortByOrder(iss)
    IN  IF oId = NoId THEN NoCall
        ELSE IF findIndex(scoped, aId) < 0 THEN NoCall
        ELSE IF resolveStatus(scoped, oId) = NoStatus THEN NoCall
        ELSE IF ~canShowStatus(vw, resolveStatus(scoped, oId)) THEN NoCall
        ELSE LET toStatus == resolveStatus(scoped, oId)
                 fromStatus == find(scoped, aId).status
                 ovIdx == overIndex(scoped, oId)
             IN  IF fromStatus = toStatus
                 THEN reorderBoardColumns(scoped, aId, ovIdx, fromStatus)
                 ELSE crossColumnMove(scoped, aId, ovIdx, fromStatus, toStatus)

\* onDragEnd of the demo BoardPage: one path for both cases
onDragEndDemo(iss, vw, aId, oId) ==
    LET scoped == sortByOrder(iss)
    IN  IF oId = NoId THEN NoCall
        ELSE IF findIndex(scoped, aId) < 0 THEN NoCall
        ELSE IF resolveStatus(scoped, oId) = NoStatus THEN NoCall
        ELSE IF ~canShowStatus(vw, resolveStatus(scoped, oId)) THEN NoCall
        ELSE LET to == resolveStatus(scoped, oId)
                 from == find(scoped, aId).status
                 ovIdx == overIndex(scoped, oId)
                 fromList == sortByOrder(filterStatus(scoped, from))
                 toList == sortByOrder(filterStatus(scoped, to))
                 fromWithout == filterNotId(fromList, aId)
                 toNext0 == filterNotId(toList, aId)
                 moved == [find(scoped, aId) EXCEPT !.status = to]
                 toNext1 ==
                     IF ovIdx >= 0 /\ scoped[ovIdx + 1].status = to
                     THEN LET overIdx == findIndex(toNext0, scoped[ovIdx + 1].id)
                              insertAt == IF overIdx < 0 THEN Len(toNext0) ELSE overIdx
                          IN  splice(toNext0, insertAt, moved)
                     ELSE Append(toNext0, moved)
                 toNext ==
                     IF from = to /\ ovIdx >= 0
                     THEN LET oldIndex == findIndex(toNext1, aId)
                              newIndex == findIndex(toNext1, scoped[ovIdx + 1].id)
                          IN  IF oldIndex # -1 /\ newIndex # -1
                              THEN arrayMove(toNext1, oldIndex, newIndex)
                              ELSE toNext1
                     ELSE toNext1
                 normalizedTo == normalizeOrders(toNext)
                 normalizedFrom == IF from = to THEN <<>> ELSE normalizeOrders(fromWithout)
             IN  Call([i \in 1 .. Len(normalizedTo) |-> statusOrderPatch(normalizedTo[i])]
                      \o [i \in 1 .. Len(normalizedFrom) |-> orderPatch(normalizedFrom[i])])

(***************************************************************************)
(* Optimistic write of the batch mutation (onMutate)                       *)
(***************************************************************************)
\* new Map(changes.map(...)): the last change of an id wins
patchOf(changes, id) ==
    changes[CHOOSE i \in 1 .. Len(changes) :
                changes[i].id = id /\ \A j \in (i + 1) .. Len(changes) : changes[j].id # id]

applyChanges(prev, changes) ==
    [i \in 1 .. Len(prev) |->
        IF \E j \in 1 .. Len(changes) : changes[j].id = prev[i].id
        THEN LET p == patchOf(changes, prev[i].id)
             IN  [prev[i] EXCEPT !.order = p.order,
                                 !.status = IF p.status = NoStatus THEN @ ELSE p.status]
        ELSE prev[i]]

\* jiraStore.applyIssueChanges of the demo: patches the issues by id
applyIssueChanges(prev, changes) == applyChanges(prev, changes)

(***************************************************************************)
(* Board: state machine of one mounted board                               *)
(***************************************************************************)
\* no refetch of the cached list is under way
NoFetch == [stage |-> "idle", data |-> <<>>]

\* no issue was moved yet
NoMove == [via |-> "none", boardId |-> "null", id |-> NoId, toSprintId |-> "null",
           status |-> NoStatus, ok |-> FALSE, result |-> <<>>, before |-> <<>>]

\* IssuesService.list was not called yet
NoList == [called |-> FALSE, boardId |-> "null", sprintId |-> "null", result |-> <<>>]

\* no multi-select picker is mounted
NoMulti == [mounted |-> FALSE]

\* the side panel without a selected issue and without a draft; `touched` records
\* that the user changed the draft since the last save was dispatched
NoPanel == [selected |-> NoId, hasDraft |-> FALSE, draft |-> <<>>, timer |-> FALSE,
            touched |-> FALSE]

\* a picker as it is mounted
PickerStart(k) ==
    [kind |-> k, open |-> FALSE, query |-> <<>>, debounced |-> <<>>,
     timer |-> FALSE, timerValue |-> <<>>, restarted |-> FALSE, loading |-> FALSE, items |-> <<>>, error |-> "null",
     activeIndex |-> 0, abortRef |-> 0, effectCtl |-> 0,
     lastQueryRef |-> <<>>, reqs |-> <<>>]

NoGesture ==
    [ended |-> FALSE, a |-> 0, o |-> NoId, prev |-> <<>>, called |-> FALSE, changes |-> <<>>]

\* The list the server returns: sorted by order, statuses of the view's scope.
InitBoard ==
    /\ variant \in Variants
    /\ view \in Views
    /\ \E st \in [IssueIds -> Statuses] :
          /\ \A n \in IssueIds : st[n] \in (IF view = "backlog" THEN {"backlog"}
                                            ELSE Statuses \ {"backlog"})
          /\ issues = [n \in IssueIds |-> [id |-> n, status |-> st[n], order |-> n * ORDER_STEP]]
    /\ activeId = 0
    /\ lastOverIdRef = NoId
    /\ gesture = NoGesture
    /\ normIn = <<>> /\ normOut = <<>> /\ normOutServer = <<>> /\ normDone = FALSE
    /\ picker = PickerStart("single")
    /\ scope = "null" /\ store = <<>> /\ cache = <<>> /\ muts = <<>>
    /\ fetch = NoFetch /\ otherStale = FALSE /\ panel = NoPanel
    /\ sprintVariant = "checked" /\ sprints = <<>> /\ calls = <<>> /\ lastMove = NoMove
    /\ table = <<>> /\ listed = NoList /\ multi = NoMulti
    /\ issueRows = <<>> /\ creating = <<>> /\ uniqueKey = FALSE

onDragStart(a) ==
    /\ activeId = 0
    /\ activeId' = a
    /\ lastOverIdRef' = IF variant = "DemoBoardPage" THEN lastOverIdRef ELSE IssueOverId(a)
    /\ gesture' = NoGesture
    /\ UNCHANGED <<variant, view, issues, exceptBoard>>

onDragOver(o) ==
    /\ activeId # 0
    /\ variant # "DemoBoardPage"
    /\ lastOverIdRef' = o
    /\ UNCHANGED <<variant, view, issues, activeId, gesture, exceptBoard>>

onDragCancel ==
    /\ activeId # 0
    /\ activeId' = 0
    /\ lastOverIdRef' = NoId
    /\ UNCHANGED <<variant, view, issues, gesture, exceptBoard>>

\* what a drag-end leaves behind: the mutation's optimistic write and the record of it
Finish(oId, res, next) ==
    /\ activeId' = 0
    /\ issues' = IF res.called THEN next ELSE issues
    /\ gesture' = [ended |-> TRUE, a |-> activeId, o |-> oId, prev |-> issues,
                   called |-> res.called, changes |-> res.changes]
    /\ UNCHANGED <<variant, view, lastOverIdRef, exceptBoard>>

DragEndBoardPage(rawOver) ==
    /\ variant = "BoardPage"
    /\ activeId # 0
    /\ LET res == onDragEndBoardPage(issues, view, activeId, rawOver)
       IN  Finish(rawOver, res, applyChanges(issues, res.changes))

DragEndBoardColumns(rawOver) ==
    /\ variant = "BoardColumns"
    /\ activeId # 0
    /\ LET oId == IF rawOver # NoId THEN rawOver ELSE lastOverIdRef
           res == onDragEndBoardColumns(issues, view, activeId, oId)
       IN  Finish(oId, res, applyChanges(issues, res.changes))

DragEndDemo(rawOver) ==
    /\ variant = "DemoBoardPage"
    /\ activeId # 0
    /\ LET res == onDragEndDemo(issues, view, activeId, rawOver)
       IN  Finish(rawOver, res, applyIssueChanges(issues, res.changes))

NextBoard ==
    \/ \E a \in IssueIds : onDragStart(a)
    \/ \E o \in OverIds : onDragOver(o)
    \/ onDragCancel
    \/ \E o \in OverIds \cup {NoId} : DragEndBoardPage(o)
    \/ \E o \in OverIds \cup {NoId} : DragEndBoardColumns(o)
    \/ \E o \in OverIds \cup {NoId} : DragEndDemo(o)

(***************************************************************************)
(* What the last drag-end saw, read off the gesture record                 *)
(***************************************************************************)
Displayed(vw, s) ==
    \/ vw = "backlog" /\ s = "backlog"
    \/ vw = "sprint" /\ s \in Statuses \ {"backlog"}

ColumnOf(list, s) == sortByOrder(SelectSeq(list, LAMBDA x : x.status = s))
IdsOf(list) == [i \in 1 .. Len(list) |-> list[i].id]
PosOf(ids, id) == CHOOSE i \in 1 .. Len(ids) : ids[i] = id

gOverIsColumn == gesture.o \in {ColumnId(s) : s \in Statuses}
gOverIsIssue == gesture.o \in {IssueOverId(n) : n \in IssueIds}
gFromStatus ==
    gesture.prev[CHOOSE i \in 1 .. Len(gesture.prev) : gesture.prev[i].id = gesture.a].status
gOverIssue == CHOOSE i \in 1 .. Len(gesture.prev) : gesture.prev[i].id = gesture.o[2]
gToStatus ==
    IF gOverIsColumn THEN gesture.o[2]
    ELSE IF gOverIsIssue THEN gesture.prev[gOverIssue].status
    ELSE NoStatus
gFromColumn == IdsOf(ColumnOf(gesture.prev, gFromStatus))
gToColumn == IdsOf(ColumnOf(gesture.prev, gToStatus))
gPatched == applyChanges(gesture.prev, gesture.changes)
gPatchIds == {gesture.changes[i].id : i \in 1 .. Len(gesture.changes)}

\* the drag-end resolved a destination the view displays
gResolved == gesture.ended /\ gToStatus # NoStatus /\ Displayed(view, gToStatus)
gSameColumn == gResolved /\ gToStatus = gFromStatus
gCrossColumn == gResolved /\ gToStatus # gFromStatus

\* every id of ids is patched exactly once, the k-th one with order k * ORDER_STEP
RenumberedAs(ids) ==
    /\ gesture.called
    /\ Len(gesture.changes) = Len(ids)
    /\ \A k \in 1 .. Len(ids) :
          \E i \in 1 .. Len(gesture.changes) :
              gesture.changes[i].id = ids[k] /\ gesture.changes[i].order = k * ORDER_STEP

NoPatches == ~gesture.called /\ gesture.changes = <<>> /\ issues = gesture.prev

\* arrayMove(column, i, j) on ids, i and j the 1-based positions
MovedTo(ids, i, j) ==
    LET without == SubSeq(ids, 1, i - 1) \o SubSeq(ids, i + 1, Len(ids))
    IN  SubSeq(without, 1, j - 1) \o <<ids[i]>> \o SubSeq(without, j, Len(without))

(***************************************************************************)
(* C1: a drag-end whose dragged issue and over issue are in the same       *)
(* column, at positions i and j of the column sorted by order: if i # j    *)
(* the patch set gives order k * 1000 to the k-th element of               *)
(* arrayMove(column, i, j); if i = j no patch is emitted.                  *)
(***************************************************************************)
C1_SameColumnReorder ==
    (gSameColumn /\ gOverIsIssue) =>
        LET i == PosOf(gFromColumn, gesture.a)
            j == PosOf(gFromColumn, gesture.o[2])
        IN  IF i # j THEN RenumberedAs(MovedTo(gFromColumn, i, j)) ELSE NoPatches

\* C1 restricted to BoardPage and BoardColumns, the components that talk to the
\* server: for them the statement of C1 holds.
C1_ServerBoards == (variant # "DemoBoardPage") => C1_SameColumnReorder

\* the moved issue's patch carries the destination status and an order of the
\* renumbered destination column, and it is the only patch of that issue
MovedPatchHasStatusAndOrder ==
    \E i \in 1 .. Len(gesture.changes) :
        /\ gesture.changes[i].id = gesture.a
        /\ gesture.changes[i].status = gToStatus
        /\ gesture.changes[i].order \in {k * ORDER_STEP : k \in 1 .. (Len(gToColumn) + 1)}
        /\ \A j \in 1 .. Len(gesture.changes) : gesture.changes[j].id = gesture.a => j = i

(***************************************************************************)
(* C2 as stated: a cross-column move from a source column of size a to a   *)
(* destination column of size b emits (a - 1) + b patches, and the moved   *)
(* issue's patch carries the new status and the new order.                 *)
(***************************************************************************)
C2_PatchCountClaimed ==
    gCrossColumn =>
        /\ gesture.called
        /\ Len(gesture.changes) = (Len(gFromColumn) - 1) + Len(gToColumn)
        /\ MovedPatchHasStatusAndOrder

(***************************************************************************)
(* C2 as the code does it: the move emits (a - 1) + (b + 1) patches, the   *)
(* destination column being renumbered with the moved issue in it; the     *)
(* moved issue's patch carries the new status and the new order.           *)
(***************************************************************************)
C2_PatchCount ==
    gCrossColumn =>
        /\ gesture.called
        /\ Len(gesture.changes) = (Len(gFromColumn) - 1) + (Len(gToColumn) + 1)
        /\ MovedPatchHasStatusAndOrder

C2_Witness ==
    gCrossColumn /\ gesture.called /\ Len(gFromColumn) = 2 /\ Len(gToColumn) = 1

(***************************************************************************)
(* C3: in a cross-column move the moved issue lands immediately before the *)
(* over issue of the destination column, the issues before the target      *)
(* staying before it in the same order; dropped on the column (no over     *)
(* issue among the loaded issues) it becomes the last of the destination.  *)
(***************************************************************************)
C3_InsertPosition ==
    gCrossColumn =>
        LET after == IdsOf(ColumnOf(gPatched, gToStatus))
        IN  IF gOverIsIssue
            THEN LET p == PosOf(gToColumn, gesture.o[2])
                 IN  after = SubSeq(gToColumn, 1, p - 1) \o <<gesture.a>>
                                 \o SubSeq(gToColumn, p, Len(gToColumn))
            ELSE after = gToColumn \o <<gesture.a>>

C3_Witness ==
    /\ gCrossColumn /\ gOverIsIssue /\ Len(gToColumn) = 2
    /\ PosOf(gToColumn, gesture.o[2]) = 2
    /\ IdsOf(ColumnOf(issues, gToStatus))[2] = gesture.a

C5_RejectedDrop ==
    (gesture.ended /\ ~gResolved) => NoPatches

C5_Witness ==
    gesture.ended /\ gToStatus # NoStatus /\ ~Displayed(view, gToStatus)

(***************************************************************************)
(* Order Normalizer as a function of arbitrary inputs                      *)
(***************************************************************************)
\* server version: keeps only id and order
normalizeOrdersServer(items) ==
    [i \in 1 .. Len(items) |-> [id |-> items[i].id, order |-> i * ORDER_STEP]]

\* order values an input may carry: multiples of the step (0 included), values
\* between them, a negative one
OrderValues ==
    {k * ORDER_STEP : k \in 0 .. MaxOrderIn} \cup {ORDER_STEP + 500, 0 - ORDER_STEP}

NormItems == [id : IssueIds, status : {"todo"}, order : OrderValues]

InitNormalize ==
    /\ \E n \in 0 .. NumIssues :
          \E l \in [1 .. n -> NormItems] :
              /\ \A i, j \in 1 .. n : i # j => l[i].id # l[j].id
              /\ normIn = l
    /\ normOut = <<>>
    /\ normOutServer = <<>>
    /\ normDone = FALSE
    /\ variant = "BoardPage" /\ view = "backlog" /\ issues = <<>>
    /\ activeId = 0 /\ lastOverIdRef = NoId /\ gesture = NoGesture
    /\ picker = PickerStart("single")
    /\ scope = "null" /\ store = <<>> /\ cache = <<>> /\ muts = <<>>
    /\ fetch = NoFetch /\ otherStale = FALSE /\ panel = NoPanel
    /\ sprintVariant = "checked" /\ sprints = <<>> /\ calls = <<>> /\ lastMove = NoMove
    /\ table = <<>> /\ listed = NoList /\ multi = NoMulti
    /\ issueRows = <<>> /\ creating = <<>> /\ uniqueKey = FALSE

Normalize ==
    /\ ~normDone
    /\ normOut' = normalizeOrders(normIn)
    /\ normOutServer' = normalizeOrdersServer(normIn)
    /\ normDone' = TRUE
    /\ UNCHANGED <<normIn, exceptNormalize>>

NextNormalize == Normalize

(***************************************************************************)
(* C6: for every input sequence of length n, whatever its order values,    *)
(* normalizeOrders returns n items in the same sequence with               *)
(* order = (index + 1) * 1000: distinct and strictly increasing.           *)
(***************************************************************************)
C6_NormalizeOrders ==
    normDone =>
        /\ Len(normOut) = Len(normIn) /\ Len(normOutServer) = Len(normIn)
        /\ \A i \in 1 .. Len(normIn) :
              /\ normOut[i].id = normIn[i].id
              /\ normOut[i].status = normIn[i].status
              /\ normOut[i].order = i * 1000
              /\ normOutServer[i] = [id |-> normIn[i].id, order |-> i * 1000]
        /\ \A i, j \in 1 .. Len(normOut) : i < j => normOut[i].order < normOut[j].order

C6_Witness ==
    /\ normDone /\ Len(normIn) = 3
    /\ normIn[1].order = normIn[2].order /\ normIn[3].order < normIn[1].order
    /\ normOut[3].order = 3000

(***************************************************************************)
(* Debounced, cancellable search of the entity pickers                     *)
(*                                                                         *)
(* Strings are sequences of characters.  A controller is the index of its  *)
(* request in reqs; 0 is null.                                             *)
(***************************************************************************)
MaxRequests == 2          \* search requests dispatched in one behaviour

MinChars == 2             \* minChars = 2
NoError == "null"
LoadError == "Failed to load results"

Kinds == {"single", "multi"}

Queries ==
    {<<>>, <<"j">>, <<"j", "o">>, <<"j", "o", "h">>, <<"j", " ">>, <<" ", "j", "o">>}

\* what the search collaborator may answer
ResultLists == {<<1>>, <<1, 2>>}

RECURSIVE trimStart(_)
trimStart(s) == IF s # <<>> /\ Head(s) = " " THEN trimStart(Tail(s)) ELSE s

RECURSIVE trimEnd(_)
trimEnd(s) == IF s # <<>> /\ s[Len(s)] = " " THEN trimEnd(SubSeq(s, 1, Len(s) - 1)) ELSE s

trim(s) == trimEnd(trimStart(s))

\* controller.abort() / abortRef.current?.abort()
abort(p, c) ==
    IF c = 0 THEN p ELSE [p EXCEPT !.reqs[c].aborted = TRUE]

\* useDebouncedValue: timer is the pending timeout, timerValue the value it will
\* publish; a change of the value clears the timeout and starts a new one
\* (restarted: the timeout cleared was still pending)
debounceRestart(old, new) ==
    IF new.query # old.query
    THEN [new EXCEPT !.timer = TRUE, !.timerValue = new.query, !.restarted = old.timer]
    ELSE new

\* the search effect without a below-threshold branch that cancels and clears
searchEffectBelowKeeps(p0) ==
    LET p == [abort(p0, p0.effectCtl) EXCEPT !.effectCtl = 0]
        q == trim(p.debounced)
    IN  IF ~p.open THEN p
        ELSE IF Len(q) < MinChars
        THEN [p EXCEPT !.lastQueryRef = IF p.kind = "multi" THEN q ELSE @]
        ELSE LET c == Len(p.reqs) + 1
             IN  [abort(p, p.abortRef) EXCEPT
                    !.reqs = Append(@, [q |-> q, aborted |-> FALSE, status |-> "inflight",
                                        isNewQuery |-> (q # p.lastQueryRef)]),
                    !.abortRef = c,
                    !.effectCtl = c,
                    !.lastQueryRef = IF p.kind = "multi" THEN q ELSE @,
                    !.loading = TRUE,
                    !.error = NoError]

\* the search effect without any cancellation of the previous request
searchEffectNoAbort(p0) ==
    LET p == [p0 EXCEPT !.effectCtl = 0]
        q == trim(p.debounced)
    IN  IF ~p.open THEN p
        ELSE IF Len(q) < MinChars
        THEN [p EXCEPT !.items = <<>>, !.error = NoError, !.loading = FALSE,
                       !.activeIndex = 0,
                       !.lastQueryRef = IF p.kind = "multi" THEN q ELSE @]
        ELSE LET c == Len(p.reqs) + 1
             IN  [p EXCEPT
                    !.reqs = Append(@, [q |-> q, aborted |-> FALSE, status |-> "inflight",
                                        isNewQuery |-> (q # p.lastQueryRef)]),
                    !.abortRef = c,
                    !.effectCtl = c,
                    !.lastQueryRef = IF p.kind = "multi" THEN q ELSE @,
                    !.loading = TRUE,
                    !.error = NoError]

\* the search effect with the threshold tested on the untrimmed value
searchEffectUntrimmed(p0) ==
    LET p == [abort(p0, p0.effectCtl) EXCEPT !.effectCtl = 0]
        q == trim(p.debounced)
    IN  IF ~p.open THEN p
        ELSE IF Len(p.debounced) < MinChars
        THEN [abort(p, p.abortRef) EXCEPT
                    !.items = <<>>, !.error = NoError, !.loading = FALSE,
                    !.activeIndex = 0,
                    !.lastQueryRef = IF p.kind = "multi" THEN q ELSE @]
        ELSE LET c == Len(p.reqs) + 1
             IN  [abort(p, p.abortRef) EXCEPT
                    !.reqs = Append(@, [q |-> q, aborted |-> FALSE, status |-> "inflight",
                                        isNewQuery |-> (q # p.lastQueryRef)]),
                    !.abortRef = c,
                    !.effectCtl = c,
                    !.lastQueryRef = IF p.kind = "multi" THEN q ELSE @,
                    !.loading = TRUE,
                    !.error = NoError]

\* One run of the search effect: the cleanup of the previous run, then the body.
searchEffect(p0) ==
    LET p == [abort(p0, p0.effectCtl) EXCEPT !.effectCtl = 0]
        q == trim(p.debounced)
    IN  IF ~p.open THEN p
        ELSE IF Len(q) < MinChars
        THEN [abort(p, p.abortRef) EXCEPT
                    !.items = <<>>, !.error = NoError, !.loading = FALSE,
                    !.activeIndex = 0,
                    !.lastQueryRef = IF p.kind = "multi" THEN q ELSE @]
        ELSE LET c == Len(p.reqs) + 1
             IN  [abort(p, p.abortRef) EXCEPT
                    !.reqs = Append(@, [q |-> q, aborted |-> FALSE, status |-> "inflight",
                                        isNewQuery |-> (q # p.lastQueryRef)]),
                    !.abortRef = c,
                    !.effectCtl = c,
                    !.lastQueryRef = IF p.kind = "multi" THEN q ELSE @,
                    !.loading = TRUE,
                    !.error = NoError]

\* the dependencies of the search effect that change at run time
effectDepsOnInput(p) == <<p.open, p.query>>

effectDeps(p) == <<p.open, p.debounced>>

\* a render after a handler: the debounce hook sees the new value, the search
\* effect runs when one of its dependencies changed
render(old, new) ==
    LET n == debounceRestart(old, new)
    IN  IF effectDeps(n) # effectDeps(old) THEN searchEffect(n) ELSE n

\* EntityPicker.close()
close(p) ==
    abort([p EXCEPT !.open = FALSE, !.query = <<>>, !.items = <<>>, !.error = NoError,
                    !.loading = FALSE, !.activeIndex = 0],
          p.abortRef)

\* useEntityMultiPicker.resetResults()
resetResults(p) ==
    abort([p EXCEPT !.items = <<>>, !.error = NoError, !.loading = FALSE,
                    !.activeIndex = 0],
          p.abortRef)

\* the promise handlers without the test of the signal
settleUnguarded(p, c, outcome, res) ==
    LET r == p.reqs[c]
        done == [p EXCEPT !.reqs[c].status = outcome]
    IN  IF outcome = "resolved"
        THEN [done EXCEPT !.items = res,
                          !.activeIndex = IF p.kind = "single" \/ r.isNewQuery THEN 0 ELSE @,
                          !.loading = FALSE]
        ELSE [done EXCEPT !.error = LoadError, !.items = <<>>,
                          !.activeIndex = IF p.kind = "multi" THEN 0 ELSE @,
                          !.loading = FALSE]

\* .then / .catch / .finally of the request of controller c
settle(p, c, outcome, res) ==
    LET r == p.reqs[c]
        done == [p EXCEPT !.reqs[c].status = outcome]
    IN  IF r.aborted THEN done
        ELSE IF outcome = "resolved"
        THEN [done EXCEPT !.items = res,
                          !.activeIndex = IF p.kind = "single" \/ r.isNewQuery THEN 0 ELSE @,
                          !.loading = FALSE]
        ELSE IF outcome = "abortError"
        THEN [done EXCEPT !.loading = FALSE]
        ELSE [done EXCEPT !.error = LoadError, !.items = <<>>,
                          !.activeIndex = IF p.kind = "multi" THEN 0 ELSE @,
                          !.loading = FALSE]

InitPicker ==
    /\ \E k \in Kinds : picker = PickerStart(k)
    /\ variant = "BoardPage" /\ view = "backlog" /\ issues = <<>>
    /\ activeId = 0 /\ lastOverIdRef = NoId /\ gesture = NoGesture
    /\ normIn = <<>> /\ normOut = <<>> /\ normOutServer = <<>> /\ normDone = FALSE
    /\ scope = "null" /\ store = <<>> /\ cache = <<>> /\ muts = <<>>
    /\ fetch = NoFetch /\ otherStale = FALSE /\ panel = NoPanel
    /\ sprintVariant = "checked" /\ sprints = <<>> /\ calls = <<>> /\ lastMove = NoMove
    /\ table = <<>> /\ listed = NoList /\ multi = NoMulti
    /\ issueRows = <<>> /\ creating = <<>> /\ uniqueKey = FALSE

\* a step to state n, allowed while the bound on dispatched requests holds
Becomes(n) ==
    /\ Len(n.reqs) <= MaxRequests
    /\ picker' = n
    /\ UNCHANGED exceptPicker

\* onFocus, ArrowDown / Enter on a closed picker, mouse down on the multi picker's box
Open ==
    /\ ~picker.open
    /\ Becomes(render(picker, [picker EXCEPT !.open = TRUE]))

\* onChange of the input
Type(v) ==
    /\ v # picker.query
    /\ LET typed == [picker EXCEPT !.open = TRUE, !.query = v]
       IN  IF picker.kind = "single"
           THEN Becomes(render(picker, typed))
           ELSE Becomes(render(picker,
                    IF Len(trim(v)) < MinChars THEN resetResults(typed) ELSE typed))

\* single: Escape, outside mouse down, select, clear
CloseSingle ==
    /\ picker.kind = "single"
    /\ Becomes(render(picker, close(picker)))

\* multi: Escape, outside mouse down
CloseMulti ==
    /\ picker.kind = "multi"
    /\ picker.open
    /\ Becomes(render(picker, [picker EXCEPT !.open = FALSE]))

\* the debounce delay elapsed
DebounceElapsed ==
    /\ picker.timer
    /\ LET n == [picker EXCEPT !.debounced = picker.timerValue, !.timer = FALSE]
       IN  Becomes(IF effectDeps(n) # effectDeps(picker) THEN searchEffect(n) ELSE n)

\* ArrowDown / ArrowUp / mouse enter on an option (options = items: nothing is selected)
MoveHighlight ==
    /\ picker.open
    /\ \E i \in 0 .. Max(Len(picker.items) - 1, 0) :
          /\ i # picker.activeIndex
          /\ Becomes([picker EXCEPT !.activeIndex = i])

\* the search promise of controller c settles
Settle(c) ==
    /\ picker.reqs[c].status = "inflight"
    /\ \/ \E res \in ResultLists : Becomes(settle(picker, c, "resolved", res))
       \/ Becomes(settle(picker, c, "rejected", <<>>))
       \/ /\ picker.reqs[c].aborted
          /\ Becomes(settle(picker, c, "abortError", <<>>))

NextPicker ==
    \/ Open
    \/ \E v \in Queries : Type(v)
    \/ CloseSingle
    \/ CloseMulti
    \/ DebounceElapsed
    \/ MoveHighlight
    \/ \E c \in 1 .. Len(picker.reqs) : Settle(c)

(***************************************************************************)
(* C7: a request whose signal is aborted changes neither items, error,     *)
(* loading nor activeIndex when its promise settles, however it settles    *)
(* and in whatever order the responses arrive; a promise that settles with *)
(* an AbortError never sets the error.                                     *)
(***************************************************************************)
C7_CancelledNeverMutates ==
    [][\A c \in 1 .. Len(picker.reqs) :
          (/\ Len(picker'.reqs) = Len(picker.reqs)
           /\ picker.reqs[c].status = "inflight"
           /\ picker'.reqs[c].status # "inflight")
          => /\ picker.reqs[c].aborted
                => /\ picker'.items = picker.items
                   /\ picker'.error = picker.error
                   /\ picker'.loading = picker.loading
                   /\ picker'.activeIndex = picker.activeIndex
             /\ picker'.reqs[c].status = "abortError" => picker'.error = picker.error]_vars

\* the superseded request answered first, while its successor is still in flight
C7_Witness ==
    /\ Len(picker.reqs) = 2
    /\ picker.reqs[1].aborted /\ picker.reqs[1].status = "resolved"
    /\ ~picker.reqs[2].aborted /\ picker.reqs[2].status = "inflight"
    /\ picker.items = <<>> /\ picker.loading /\ picker.error = "null"

(***************************************************************************)
(* C8: in every reachable state at most one dispatched request has a       *)
(* signal that is not aborted, and it is the last one dispatched.          *)
(***************************************************************************)
C8_AtMostOneLive ==
    /\ Cardinality({c \in 1 .. Len(picker.reqs) : ~picker.reqs[c].aborted}) <= 1
    /\ \A c \in 1 .. Len(picker.reqs) :
          ~picker.reqs[c].aborted => c = Len(picker.reqs)

C8_Witness ==
    /\ Len(picker.reqs) = 2
    /\ picker.reqs[1].status = "inflight" /\ picker.reqs[1].aborted
    /\ picker.reqs[2].status = "inflight" /\ ~picker.reqs[2].aborted

(***************************************************************************)
(* C9: the search collaborator is never called with a query whose trimmed  *)
(* length is below minChars.                                               *)
(***************************************************************************)
C9_NoSearchBelowMinChars ==
    \A c \in 1 .. Len(picker.reqs) : Len(trim(picker.reqs[c].q)) >= MinChars

\* the delay of "j " elapsed in an open picker: two characters, one after trim
C9_Witness ==
    /\ picker.open /\ ~picker.timer
    /\ picker.query = <<"j", " ">> /\ picker.debounced = <<"j", " ">>
    /\ picker.reqs = <<>>

LiveRequest(p) ==
    /\ p.effectCtl # 0
    /\ p.reqs[p.effectCtl].status = "inflight"
    /\ ~p.reqs[p.effectCtl].aborted

(***************************************************************************)
(* C11: a step that closes an open picker while its request is in flight   *)
(* cancels that request and leaves loading false, the result list empty    *)
(* and no error, in the single and in the multi picker.                    *)
(***************************************************************************)
C11_CloseLeavesIdle ==
    [][(picker.open /\ ~picker'.open /\ LiveRequest(picker)) =>
          /\ picker'.reqs[picker.effectCtl].aborted
          /\ ~picker'.loading
          /\ picker'.items = <<>>
          /\ picker'.error = "null"]_vars

\* C11 for the single picker, whose close() resets the state itself
C11_SingleCloseLeavesIdle ==
    [][(picker.kind = "single" /\ picker.open /\ ~picker'.open /\ LiveRequest(picker)) =>
          /\ picker'.reqs[picker.effectCtl].aborted
          /\ ~picker'.loading
          /\ picker'.items = <<>>
          /\ picker'.error = "null"]_vars

\* C11 for the multi picker: closing cancels the request and changes nothing else
C11_MultiCloseOnlyCancels ==
    [][(picker.kind = "multi" /\ picker.open /\ ~picker'.open /\ LiveRequest(picker)) =>
          /\ picker'.reqs[picker.effectCtl].aborted
          /\ picker'.loading = picker.loading
          /\ picker'.items = picker.items
          /\ picker'.error = picker.error]_vars

\* no request is in flight with a signal that is not aborted
NoLiveRequest(p) ==
    \A c \in 1 .. Len(p.reqs) : p.reqs[c].status = "inflight" => p.reqs[c].aborted

(***************************************************************************)
(* C12 as stated, the query being the value of the input: whenever the     *)
(* trimmed input of an open picker is shorter than minChars, every request *)
(* in flight has been cancelled and the result list is empty.              *)
(***************************************************************************)
C12_BelowThresholdInput ==
    (picker.open /\ Len(trim(picker.query)) < MinChars) =>
        NoLiveRequest(picker) /\ picker.items = <<>>

(***************************************************************************)
(* C12 for the debounced query, which is what the search effect tests:     *)
(* whenever the trimmed debounced query of an open picker is shorter than  *)
(* minChars, every request in flight has been cancelled, the result list   *)
(* is empty and loading is false.                                          *)
(***************************************************************************)
C12_BelowThresholdDebounced ==
    (picker.open /\ Len(trim(picker.debounced)) < MinChars) =>
        NoLiveRequest(picker) /\ picker.items = <<>> /\ ~picker.loading

\* results of an earlier query were shown, the next request was in flight when
\* the debounced query fell below the threshold
C12_Witness ==
    /\ picker.open /\ ~picker.timer /\ picker.debounced = <<"j">>
    /\ Len(picker.reqs) = 2
    /\ picker.reqs[1].status = "resolved"
    /\ picker.reqs[2].status = "inflight" /\ picker.reqs[2].aborted
    /\ picker.items = <<>>

(***************************************************************************)
(* Sync controller: the issue service of the server and the optimistic     *)
(* mutations of the client over one cached partition                       *)
(***************************************************************************)
MaxMutations == 2

NoSprint == "null"                       \* sprintId: null, the backlog
SprintIds == {NoSprint, "S1"}
BoardIds == {"B1", "B2"}
TheBoard == "B1"                         \* the board of the mounted page
ServerId(n) == <<"id", n>>               \* an id given by the database
TempId(k) == <<"tmp_", k>>               \* `tmp_${crypto.randomUUID()}`
TempKey == <<"TMP">>
BoardKey(n) == <<"B", n>>                \* `${boardId}-${count + 1}`
NewOrder == 3 * ORDER_STEP               \* the order the caller gives a new issue
NewTitles == {<<"b">>}

ViewOf(sc) == IF sc = NoSprint THEN "backlog" ELSE "sprint"

\* the issues of the board when the page is mounted
SeedStore(sc) ==
    [i \in 1 .. 2 |->
        [id |-> ServerId(i), boardId |-> TheBoard, key |-> BoardKey(i), title |-> <<"a">>,
         status |-> IF sc = NoSprint THEN "backlog" ELSE "todo",
         order |-> i * ORDER_STEP, sprintId |-> sc]]

\* IssuesService.list
listIssues(st, sc) == sortByOrder(SelectSeq(st, LAMBDA x : x.sprintId = sc))

\* IssuesService.create
create(st, input) ==
    LET created == [id |-> ServerId(Len(st) + 1), boardId |-> input.boardId,
                    key |-> BoardKey(Len(st) + 1),
                    title |-> input.title, status |-> input.status,
                    order |-> input.order, sprintId |-> input.sprintId]
    IN  [ok |-> TRUE, store |-> Append(st, created), result |-> created, applied |-> 1]

\* { ...it, ...patch }: the fields the patch has replace those of the issue
merge(it, p) ==
    [id |-> it.id, boardId |-> it.boardId, key |-> it.key,
     title |-> IF "title" \in DOMAIN p THEN p.title ELSE it.title,
     status |-> IF "status" \in DOMAIN p THEN p.status ELSE it.status,
     order |-> IF "order" \in DOMAIN p THEN p.order ELSE it.order,
     sprintId |-> IF "sprintId" \in DOMAIN p THEN p.sprintId ELSE it.sprintId]

\* IssuesService.patch without the rule on the status of a moved issue
patchKeepsStatus(st, id, p) ==
    IF findIndex(st, id) < 0
    THEN [ok |-> FALSE, store |-> st, result |-> <<>>, applied |-> 0]
    ELSE LET updated == merge(find(st, id), p)
         IN  [ok |-> TRUE, store |-> [st EXCEPT ![findIndex(st, id) + 1] = updated],
              result |-> updated, applied |-> 1]

\* IssuesService.patch: findUniqueOrThrow, then update
patch(st, id, p) ==
    IF findIndex(st, id) < 0
    THEN [ok |-> FALSE, store |-> st, result |-> <<>>, applied |-> 0]
    ELSE LET existing == find(st, id)
             copied == merge(existing, p)
             updated ==
                 IF "sprintId" \in DOMAIN p
                 THEN IF p.sprintId = NoSprint
                      THEN [copied EXCEPT !.status = "backlog"]
                      ELSE IF existing.status = "backlog"
                           THEN [copied EXCEPT !.status = "todo"]
                           ELSE copied
                 ELSE copied
         IN  [ok |-> TRUE, store |-> [st EXCEPT ![findIndex(st, id) + 1] = updated],
              result |-> updated, applied |-> 1]

\* the patch of a change as the drag handlers emit it: { order } or { status, order }
changePatch(c) ==
    IF c.status = NoStatus THEN [order |-> c.order]
    ELSE [status |-> c.status, order |-> c.order]

\* jiraClient.patchIssuesBatch: the body of PATCH /issues/batch, an array of { id, patch }
batchRequest(changes) ==
    [i \in 1 .. Len(changes) |-> [id |-> changes[i].id, patch |-> changePatch(changes[i])]]

\* buildBatchPatchData: status and order are copied when the patch has them (the
\* title is not); a sprintId is copied and fixes the status, backlog for null and
\* todo for a sprint, whatever status the patch has
buildBatchPatchData(p) ==
    [f \in (DOMAIN p \cap {"status", "order"})
            \cup (IF "sprintId" \in DOMAIN p THEN {"sprintId", "status"} ELSE {}) |->
        CASE f = "sprintId" -> p.sprintId
          [] f = "status" /\ "sprintId" \in DOMAIN p ->
                 IF p.sprintId = NoSprint THEN "backlog" ELSE "todo"
          [] OTHER -> p[f]]

\* changes.map((c) => prisma.issue.update(...)): one update after the other, up to
\* the first that finds no row
RECURSIVE updates(_, _, _)
updates(st, changes, n) ==
    IF changes = <<>> THEN [ok |-> TRUE, store |-> st, result |-> <<>>, applied |-> n]
    ELSE IF findIndex(st, Head(changes).id) < 0
    THEN [ok |-> FALSE, store |-> st, result |-> <<>>, applied |-> n]
    ELSE updates([st EXCEPT ![findIndex(st, Head(changes).id) + 1] =
                      merge(@, buildBatchPatchData(Head(changes).patch))],
                 Tail(changes), n + 1)

\* A batch patch whose updates are not undone when a later one fails.
batchPatchNoTransaction(st, changes) == updates(st, changes, 0)

\* IssuesService.batchPatch: prisma.$transaction([...]) commits all updates or none
batchPatch(st, changes) ==
    IF updates(st, changes, 0).ok THEN updates(st, changes, 0)
    ELSE [ok |-> FALSE, store |-> st, result |-> <<>>, applied |-> 0]

\* jiraClient.moveIssue: PATCH /issues/:id with a body of the sprintId alone
moveIssue(st, id, toSprintId) == patch(st, id, [sprintId |-> toSprintId])

\* useCreateIssue.onMutate: [...prev, optimistic]
createOnMutateFirst(prev, input, tempId) ==
    <<[id |-> tempId, boardId |-> input.boardId, key |-> TempKey,
       title |-> input.title, status |-> input.status,
       order |-> input.order, sprintId |-> input.sprintId]>> \o prev

createOnMutate(prev, input, tempId) ==
    Append(prev, [id |-> tempId, boardId |-> input.boardId, key |-> TempKey,
                  title |-> input.title,
                  status |-> input.status, order |-> input.order,
                  sprintId |-> input.sprintId])

\* useCreateIssue.onSuccess: prev.map((it) => (it.id === ctx?.tempId ? created : it))
createOnSuccess(prev, tempId, created) ==
    [i \in 1 .. Len(prev) |-> IF prev[i].id = tempId THEN created ELSE prev[i]]

\* usePatchIssue.onMutate
patchOnMutate(prev, id, p) ==
    [i \in 1 .. Len(prev) |-> IF prev[i].id = id THEN merge(prev[i], p) ELSE prev[i]]

\* usePatchIssue.onSuccess
patchOnSuccess(prev, updated) ==
    [i \in 1 .. Len(prev) |-> IF prev[i].id = updated.id THEN updated ELSE prev[i]]

\* useMoveIssue.onMutate: set the sprintId, keep what is still in the scope
moveOnMutate(prev, id, toSprintId, sc) ==
    SelectSeq([i \in 1 .. Len(prev) |->
                  IF prev[i].id = id THEN [prev[i] EXCEPT !.sprintId = toSprintId]
                  ELSE prev[i]],
              LAMBDA x : x.sprintId = sc)

\* An error handler that leaves the optimistic list in the cache.
onErrorKeeps(current, ctxPrev) == current

\* onError of the four mutations: if (ctx?.prev) qc.setQueryData(key, ctx.prev)
onError(current, ctxPrev) == ctxPrev

\* An onMutate that leaves a fetch under way alone.
cancelQueriesNot(f) == f

\* qc.cancelQueries({ queryKey: key }): a fetch under way is dropped
cancelQueries(f) == NoFetch

\* invalidateQueries that lets a fetch under way finish instead of replacing it
invalidateQueriesKeepsFetch(f) ==
    IF f.stage = "idle" THEN [stage |-> "requested", data |-> <<>>] ELSE f

\* qc.invalidateQueries({ queryKey: key }): the mounted list is fetched again
invalidateQueries(f) == [stage |-> "requested", data |-> <<>>]

\* A settle step that invalidates nothing.
onSettledNothing(kind, f, stale) == [fetch |-> f, otherStale |-> stale]

\* onSettled: the partition's key; useMoveIssue also ["issues", boardId]
onSettled(kind, f, stale) ==
    [fetch |-> invalidateQueries(f),
     otherStale |-> IF kind = "move" THEN TRUE ELSE stale]

\* IssueSidePanel, "Debounce save: title": the effect after a render. It arms the
\* 600 ms timer when the selected issue has a local draft that differs from the
\* title in the cached list, and its cleanup clears the timer otherwise.
autosaveEffect(p, list) ==
    IF p.selected = NoId \/ findIndex(list, p.selected) < 0 THEN [p EXCEPT !.timer = FALSE]
    ELSE IF ~p.hasDraft THEN [p EXCEPT !.timer = FALSE]
    ELSE IF p.draft = find(list, p.selected).title THEN [p EXCEPT !.timer = FALSE]
    ELSE [p EXCEPT !.timer = TRUE]

\* a mutation as useMutation tracks it, and what the server made of its request
Mutation(kind, arg, prev, tempId) ==
    [kind |-> kind, arg |-> arg, prev |-> prev, tempId |-> tempId,
     server |-> "none", applied |-> 0, result |-> <<>>, status |-> "pending"]

\* the request of a mutation, as the server handles it
serve(st, m) ==
    CASE m.kind = "create" -> create(st, m.arg.input)
      [] m.kind = "patch" -> patch(st, m.arg.id, m.arg.patch)
      [] m.kind = "batch" -> batchPatch(st, batchRequest(m.arg.changes))
      [] m.kind = "move" -> moveIssue(st, m.arg.id, m.arg.toSprintId)

\* onSuccess of a mutation (the batch patch and the move have none)
onSuccess(current, m) ==
    CASE m.kind = "create" -> createOnSuccess(current, m.tempId, m.result)
      [] m.kind = "patch" -> patchOnSuccess(current, m.result)
      [] OTHER -> current

DropTargets(list) ==
    {ColumnId("backlog"), ColumnId("done")} \cup {IssueOverId(list[j].id) : j \in 1 .. Len(list)}

InitSync ==
    /\ scope \in SprintIds
    /\ store = SeedStore(scope)
    /\ cache = listIssues(store, scope)
    /\ muts = <<>> /\ fetch = NoFetch /\ otherStale = FALSE /\ panel = NoPanel
    /\ sprintVariant = "checked" /\ sprints = <<>> /\ calls = <<>> /\ lastMove = NoMove
    /\ table = <<>> /\ listed = NoList /\ multi = NoMulti
    /\ issueRows = <<>> /\ creating = <<>> /\ uniqueKey = FALSE
    /\ variant = "BoardPage" /\ view = "backlog" /\ issues = <<>>
    /\ activeId = 0 /\ lastOverIdRef = NoId /\ gesture = NoGesture
    /\ normIn = <<>> /\ normOut = <<>> /\ normOutServer = <<>> /\ normDone = FALSE
    /\ picker = PickerStart("single")

\* mutate(): onMutate cancels the fetch, keeps the cached list and writes the
\* optimistic one; the request is on its way
Mutate(m, optimistic) ==
    /\ Len(muts) < MaxMutations
    /\ muts' = Append(muts, m)
    /\ cache' = optimistic
    /\ fetch' = cancelQueries(fetch)
    /\ panel' = autosaveEffect(panel, optimistic)
    /\ UNCHANGED <<scope, store, otherStale, exceptSync>>

\* BoardPage.onSaveDraft
CreateIssue ==
    LET input == [boardId |-> TheBoard, title |-> <<"n">>, sprintId |-> scope,
                  order |-> NewOrder,
                  status |-> IF scope = NoSprint THEN "backlog" ELSE "todo"]
        tempId == TempId(Len(muts) + 1)
    IN  Mutate(Mutation("create", [input |-> input], cache, tempId),
               createOnMutate(cache, input, tempId))

\* onPatchIssue with a patch of the title
PatchIssue ==
    \E i \in 1 .. Len(cache), t \in NewTitles :
        Mutate(Mutation("patch", [id |-> cache[i].id, patch |-> [title |-> t]], cache, NoId),
               patchOnMutate(cache, cache[i].id, [title |-> t]))

\* onBatchPatch(changes) at the end of a drag gesture over the cached list
BatchPatch ==
    \E i \in 1 .. Len(cache), o \in DropTargets(cache) :
        LET r == onDragEndBoardColumns(cache, ViewOf(scope), cache[i].id, o)
        IN  /\ r.called
            /\ Mutate(Mutation("batch", [changes |-> r.changes], cache, NoId),
                      applyChanges(cache, r.changes))

\* BoardPage.onMoveIssue
MoveIssue ==
    \E i \in 1 .. Len(cache), to \in SprintIds :
        Mutate(Mutation("move", [id |-> cache[i].id, toSprintId |-> to], cache, NoId),
               moveOnMutate(cache, cache[i].id, to, scope))

\* the server handles the request of mutation m
Serve(m) ==
    /\ muts[m].status = "pending" /\ muts[m].server = "none"
    /\ LET r == serve(store, muts[m])
       IN  /\ store' = r.store
           /\ muts' = [muts EXCEPT ![m].server = IF r.ok THEN "applied" ELSE "rejected",
                                   ![m].applied = r.applied,
                                   ![m].result = r.result]
    /\ UNCHANGED <<scope, cache, fetch, otherStale, panel, exceptSync>>

\* the response of mutation m arrives: onSuccess, then onSettled
Succeed(m) ==
    /\ muts[m].status = "pending" /\ muts[m].server = "applied"
    /\ cache' = onSuccess(cache, muts[m])
    /\ muts' = [muts EXCEPT ![m].status = "success"]
    /\ fetch' = onSettled(muts[m].kind, fetch, otherStale).fetch
    /\ otherStale' = onSettled(muts[m].kind, fetch, otherStale).otherStale
    /\ panel' = autosaveEffect(panel, cache')
    /\ UNCHANGED <<scope, store, exceptSync>>

\* the call of mutation m throws (the request or its response was lost, or the
\* server answered with an error): onError, then onSettled
Fail(m) ==
    /\ muts[m].status = "pending"
    /\ cache' = onError(cache, muts[m].prev)
    /\ muts' = [muts EXCEPT ![m].status = "error"]
    /\ fetch' = onSettled(muts[m].kind, fetch, otherStale).fetch
    /\ otherStale' = onSettled(muts[m].kind, fetch, otherStale).otherStale
    /\ panel' = autosaveEffect(panel, cache')
    /\ UNCHANGED <<scope, store, exceptSync>>

\* the list is fetched again without a mutation (window focus, reconnect)
Refetch ==
    /\ fetch.stage = "idle"
    /\ fetch' = invalidateQueries(fetch)
    /\ UNCHANGED <<scope, store, cache, muts, otherStale, panel, exceptSync>>

\* the server answers GET /issues
FetchServe ==
    /\ fetch.stage = "requested"
    /\ fetch' = [stage |-> "served", data |-> listIssues(store, scope)]
    /\ UNCHANGED <<scope, store, cache, muts, otherStale, panel, exceptSync>>

\* the answer becomes the cached list
FetchDeliver ==
    /\ fetch.stage = "served"
    /\ cache' = fetch.data
    /\ fetch' = NoFetch
    /\ panel' = autosaveEffect(panel, cache')
    /\ UNCHANGED <<scope, store, muts, otherStale, exceptSync>>

NextSync ==
    \/ CreateIssue
    \/ PatchIssue
    \/ BatchPatch
    \/ MoveIssue
    \/ \E m \in 1 .. Len(muts) : Serve(m)
    \/ \E m \in 1 .. Len(muts) : Succeed(m)
    \/ \E m \in 1 .. Len(muts) : Fail(m)
    \/ Refetch
    \/ FetchServe
    \/ FetchDeliver

(***************************************************************************)
(* Claims on the sync controller                                           *)
(***************************************************************************)
CacheIds == {cache[i].id : i \in 1 .. Len(cache)}

\* mutation m is started by this step
Starts(kind) == Len(muts') = Len(muts) + 1 /\ muts'[Len(muts')].kind = kind

\* mutation m of the given kind settles with the given status in this step
Settles(m, kind, status) ==
    /\ m <= Len(muts) /\ muts[m].kind = kind
    /\ muts[m].status = "pending" /\ muts'[m].status = status

\* the cached list never holds an id twice, nor a placeholder next to the issue
\* the server created for it
C13_NoDuplicate ==
    /\ \A i, j \in 1 .. Len(cache) : i # j => cache[i].id # cache[j].id
    /\ \A m \in 1 .. Len(muts) :
          (muts[m].kind = "create" /\ muts[m].server = "applied")
             => ~(muts[m].tempId \in CacheIds /\ muts[m].result.id \in CacheIds)

\* C13: the optimistic step of a create appends one entry with a tmp_ id to the
\* cached list; on success the entry with that id is replaced where it stands by
\* the issue the server returned; and whatever other mutations and refetches do
\* in between, the cached list never has two entries with one id, nor the
\* placeholder together with its canonical issue.
C13_OptimisticCreate ==
    /\ []C13_NoDuplicate
    /\ [][/\ Starts("create") =>
               /\ Len(cache') = Len(cache) + 1
               /\ SubSeq(cache', 1, Len(cache)) = cache
               /\ cache'[Len(cache')].id = muts'[Len(muts')].tempId
               /\ cache'[Len(cache')].id[1] = "tmp_"
               /\ cache'[Len(cache')].id \notin CacheIds
          /\ \A m \in 1 .. MaxMutations :
               Settles(m, "create", "success") =>
                  /\ Len(cache') = Len(cache)
                  /\ \A i \in 1 .. Len(cache) :
                        cache'[i] = IF cache[i].id = muts[m].tempId
                                    THEN muts[m].result ELSE cache[i]
                  /\ muts[m].tempId \notin {cache'[i].id : i \in 1 .. Len(cache')}]_vars

\* a create succeeded after another mutation wrote its optimistic list on top of
\* the placeholder, and the created issue stands where the placeholder stood
C13_Witness ==
    /\ Len(muts) = 2 /\ muts[1].kind = "create" /\ muts[1].status = "success"
    /\ muts[2].status = "pending" /\ muts[2].kind = "patch"
    /\ Len(cache) = 3 /\ cache[3] = muts[1].result
    /\ fetch.stage = "requested"

MutationKinds == {"create", "patch", "batch", "move"}

\* C14: every mutation (batch patch, patch, create, move) keeps the list that is
\* cached when it starts, before its optimistic write; when its remote call
\* fails, the cached list becomes exactly that kept list again and the mutation
\* ends in the error state.
C14_RollbackOnFailure ==
    [][/\ \A kind \in MutationKinds :
             Starts(kind) => muts'[Len(muts')].prev = cache
       /\ \A m \in 1 .. MaxMutations, kind \in MutationKinds :
             (Settles(m, kind, "success") \/ Settles(m, kind, "error"))
                => /\ muts'[m].prev = muts[m].prev
                   /\ (muts[m].server # "applied" => muts'[m].status = "error")
                   /\ (muts'[m].status = "error" => cache' = muts[m].prev)]_vars

\* a batch patch over a list with a placeholder failed and the list with the
\* placeholder, in its old order, is cached again
C14_Witness ==
    /\ Len(muts) = 2 /\ muts[1].kind = "create" /\ muts[2].kind = "batch"
    /\ muts[2].status = "error" /\ muts[2].server = "rejected"
    /\ cache = muts[2].prev /\ Len(cache) = 3
    /\ applyChanges(cache, muts[2].arg.changes) # cache

\* the issue of change c is in the list with the values of the change
PatchShown(list, c) ==
    /\ findIndex(list, c.id) >= 0
    /\ find(list, c.id).order = c.order
    /\ c.status # NoStatus => find(list, c.id).status = c.status

\* the changes of a patch set that alter the list they were computed from
Effective(changes, prev) ==
    {k \in 1 .. Len(changes) : ~PatchShown(prev, changes[k])}

\* the list shows some of the patch set's alterations and lacks others
Partial(list, changes, prev) ==
    /\ \E k \in Effective(changes, prev) : PatchShown(list, changes[k])
    /\ \E k \in Effective(changes, prev) : ~PatchShown(list, changes[k])

BatchSettles(m) == Settles(m, "batch", "success") \/ Settles(m, "batch", "error")

\* C15 as claimed: when the batch call of a gesture settles, neither the store
\* has taken a part of its patches nor does the cached list show a part of them
\* (looked at where no other gesture and no create or move touched the list: the
\* other mutations are patches of a title).
C15_AllOrNothingClaimed ==
    [][\A m \in 1 .. MaxMutations :
          (/\ BatchSettles(m)
           /\ \A n \in 1 .. Len(muts) : n # m => muts[n].kind = "patch") =>
             /\ muts[m].applied \in {0, Len(muts[m].arg.changes)}
             /\ ~Partial(cache', muts[m].arg.changes, muts[m].prev)]_vars

\* C15: a drag gesture starts exactly one batch call, which carries the whole
\* patch set of the gesture; the server commits all patches of the call or none
\* of them; a call that succeeds was committed in full, and when the call fails
\* the cached list is the snapshot taken before the optimistic write.
C15_AllOrNothing ==
    [][/\ Starts("batch") =>
            /\ muts' = Append(muts, muts'[Len(muts')])
            /\ \E i \in 1 .. Len(cache), o \in DropTargets(cache) :
                  /\ onDragEndBoardColumns(cache, ViewOf(scope), cache[i].id, o).called
                  /\ muts'[Len(muts')].arg.changes =
                        onDragEndBoardColumns(cache, ViewOf(scope), cache[i].id, o).changes
            /\ \A k \in 1 .. Len(muts'[Len(muts')].arg.changes) :
                  PatchShown(cache', muts'[Len(muts')].arg.changes[k])
       /\ \A m \in 1 .. MaxMutations :
            /\ (/\ m <= Len(muts) /\ muts[m].kind = "batch"
                /\ muts[m].server = "none" /\ muts'[m].server # "none")
                  => \/ /\ muts'[m].server = "applied"
                        /\ muts'[m].applied = Len(muts[m].arg.changes)
                        /\ \A k \in 1 .. Len(muts[m].arg.changes) :
                              PatchShown(store', muts[m].arg.changes[k])
                     \/ /\ muts'[m].server = "rejected"
                        /\ muts'[m].applied = 0
                        /\ store' = store
            /\ Settles(m, "batch", "success")
                  => muts[m].applied = Len(muts[m].arg.changes)
            /\ Settles(m, "batch", "error") => cache' = muts[m].prev]_vars

\* the patch set of a gesture that moved a placeholder was refused by the server
\* after its first updates: the store is as before and the cache is rolled back
C15_Witness ==
    /\ Len(muts) = 2 /\ muts[1].kind = "create" /\ muts[1].status = "pending"
    /\ muts[2].kind = "batch" /\ muts[2].server = "rejected" /\ muts[2].status = "error"
    /\ findIndex(store, muts[2].arg.changes[1].id) >= 0
    /\ Len(muts[2].arg.changes) = 3
    /\ muts[1].server = "none" /\ store = SeedStore(scope)
    /\ cache = muts[2].prev

\* C16: when a batch patch, patch, create or move settles, with success or with
\* an error, the key of its partition is invalidated (the mounted list is
\* requested again, a fetch under way being replaced); the settling of a move
\* also invalidates the other cached issue partitions of the board.
C16_SettleInvalidates ==
    [][\A m \in 1 .. MaxMutations, kind \in MutationKinds :
          (Settles(m, kind, "success") \/ Settles(m, kind, "error"))
             => /\ fetch' = [stage |-> "requested", data |-> <<>>]
                /\ kind = "move" => otherStale']_vars

\* a patch succeeded and a move failed after it: the list is requested again
\* and the board's other partitions are stale
C16_Witness ==
    /\ Len(muts) = 2 /\ muts[2].kind = "move" /\ muts[2].status = "error"
    /\ muts[1].kind = "patch" /\ muts[1].status = "success"
    /\ fetch.stage = "requested" /\ otherStale

(***************************************************************************)
(* Issue side panel: the debounced autosave of the title over the sync     *)
(* controller                                                              *)
(***************************************************************************)
DraftTitles == {<<"a">>, <<"b">>}

InitPanel ==
    /\ scope \in SprintIds
    /\ store = SeedStore(scope)
    /\ cache = listIssues(store, scope)
    /\ muts = <<>> /\ fetch = NoFetch /\ otherStale = FALSE /\ panel = NoPanel
    /\ sprintVariant = "checked" /\ sprints = <<>> /\ calls = <<>> /\ lastMove = NoMove
    /\ table = <<>> /\ listed = NoList /\ multi = NoMulti
    /\ issueRows = <<>> /\ creating = <<>> /\ uniqueKey = FALSE
    /\ variant = "BoardPage" /\ view = "backlog" /\ issues = <<>>
    /\ activeId = 0 /\ lastOverIdRef = NoId /\ gesture = NoGesture
    /\ normIn = <<>> /\ normOut = <<>> /\ normOutServer = <<>> /\ normDone = FALSE
    /\ picker = PickerStart("single")

\* a step of the panel alone, followed by the autosave effect
PanelBecomes(p) ==
    /\ panel' = autosaveEffect(p, cache)
    /\ UNCHANGED <<scope, store, cache, muts, fetch, otherStale, exceptSync>>

\* onOpenIssue: the first issue of the board is selected
OpenIssue ==
    /\ panel.selected = NoId
    /\ PanelBecomes([panel EXCEPT !.selected = ServerId(1)])

\* onClose: the drafts stay in the panel's state
CloseIssue ==
    /\ panel.selected # NoId
    /\ PanelBecomes([panel EXCEPT !.selected = NoId])

\* onTitleChange: the user types in the title field
TitleChange(t) ==
    /\ panel.selected # NoId
    /\ PanelBecomes([panel EXCEPT !.hasDraft = TRUE, !.draft = t, !.touched = TRUE])

\* the 600 ms timer fires: onPatchIssue({ id, patch: { title: local } }), which is
\* patchIssue.mutate(args)
AutosaveFires ==
    /\ panel.timer
    /\ Len(muts) < MaxMutations
    /\ muts' = Append(muts, Mutation("patch", [id |-> panel.selected,
                                               patch |-> [title |-> panel.draft]],
                                     cache, NoId))
    /\ cache' = patchOnMutate(cache, panel.selected, [title |-> panel.draft])
    /\ fetch' = cancelQueries(fetch)
    /\ panel' = autosaveEffect([panel EXCEPT !.touched = FALSE], cache')
    /\ UNCHANGED <<scope, store, otherStale, exceptSync>>

NextPanel ==
    \/ OpenIssue
    \/ CloseIssue
    \/ \E t \in DraftTitles : TitleChange(t)
    \/ AutosaveFires
    \/ \E m \in 1 .. Len(muts) : Serve(m)
    \/ \E m \in 1 .. Len(muts) : Succeed(m)
    \/ \E m \in 1 .. Len(muts) : Fail(m)
    \/ Refetch
    \/ FetchServe
    \/ FetchDeliver

\* C17: after the remote call of a change failed, the client sends that change
\* again only after a new user gesture; in the side panel, a title patch that
\* failed and was rolled back is dispatched again only when the user has edited
\* the title since.
C17_NoResendWithoutGesture ==
    [][(/\ Starts("patch")
        /\ \E m \in 1 .. Len(muts) :
              muts[m].status = "error" /\ muts[m].arg = muts'[Len(muts')].arg)
          => panel.touched]_vars

(***************************************************************************)
(* Sprint service: BoardsService.createSprint and setActiveSprint, in the  *)
(* version without and in the version with the check of the sprint's board *)
(***************************************************************************)
MaxSprints == 3
SprintVariants == {"unchecked", "checked"}

\* the active sprints of a board, by id (the id of a sprint is the number of its row)
ActiveOf(tbl, boardId) ==
    {i \in 1 .. Len(tbl) : tbl[i].boardId = boardId /\ tbl[i].isActive}

\* tx.sprint.updateMany({ where: { boardId, isActive: true }, data: { isActive: false } })
updateManyInactive(tbl, boardId) ==
    [i \in 1 .. Len(tbl) |->
        IF tbl[i].boardId = boardId /\ tbl[i].isActive
        THEN [tbl[i] EXCEPT !.isActive = FALSE] ELSE tbl[i]]

\* createSprint, first version
createSprint(tbl, boardId, isActive) ==
    Append(IF isActive THEN updateManyInactive(tbl, boardId) ELSE tbl,
           [id |-> Len(tbl) + 1, boardId |-> boardId, isActive |-> isActive])

\* createSprint, second version: NotFoundException when the board does not exist
createSprintChecked(tbl, boardId, isActive) ==
    IF boardId \notin BoardIds THEN tbl
    ELSE Append(IF isActive THEN updateManyInactive(tbl, boardId) ELSE tbl,
                [id |-> Len(tbl) + 1, boardId |-> boardId, isActive |-> isActive])

\* setActiveSprint, first version: the update of a missing row throws and the
\* transaction is rolled back; the board of the sprint is not looked at
setActiveSprint(tbl, boardId, sprintId) ==
    IF sprintId \notin 1 .. Len(tbl) THEN tbl
    ELSE [updateManyInactive(tbl, boardId) EXCEPT ![sprintId].isActive = TRUE]

\* setActiveSprint, second version: findFirst({ where: { id: sprintId, boardId } })
\* or NotFoundException
setActiveSprintChecked(tbl, boardId, sprintId) ==
    IF ~(sprintId \in 1 .. Len(tbl) /\ tbl[sprintId].boardId = boardId) THEN tbl
    ELSE [updateManyInactive(tbl, boardId) EXCEPT ![sprintId].isActive = TRUE]

InitSprints ==
    /\ sprintVariant \in SprintVariants
    /\ sprints = <<>> /\ calls = <<>> /\ lastMove = NoMove
    /\ table = <<>> /\ listed = NoList /\ multi = NoMulti
    /\ issueRows = <<>> /\ creating = <<>> /\ uniqueKey = FALSE
    /\ variant = "BoardPage" /\ view = "backlog" /\ issues = <<>>
    /\ activeId = 0 /\ lastOverIdRef = NoId /\ gesture = NoGesture
    /\ normIn = <<>> /\ normOut = <<>> /\ normOutServer = <<>> /\ normDone = FALSE
    /\ picker = PickerStart("single")
    /\ scope = "null" /\ store = <<>> /\ cache = <<>> /\ muts = <<>>
    /\ fetch = NoFetch /\ otherStale = FALSE /\ panel = NoPanel

\* POST /boards/:boardId/sprints, one call after the other
CreateSprint(boardId, isActive) ==
    /\ Len(sprints) < MaxSprints
    /\ sprints' = IF sprintVariant = "checked"
                  THEN createSprintChecked(sprints, boardId, isActive)
                  ELSE createSprint(sprints, boardId, isActive)
    /\ UNCHANGED <<sprintVariant, calls, lastMove, syncVars, exceptServer>>

\* PATCH /boards/:boardId/active-sprint, one call after the other
SetActiveSprint(boardId, sprintId) ==
    /\ sprints' = IF sprintVariant = "checked"
                  THEN setActiveSprintChecked(sprints, boardId, sprintId)
                  ELSE setActiveSprint(sprints, boardId, sprintId)
    /\ UNCHANGED <<sprintVariant, calls, lastMove, syncVars, exceptServer>>

NextSprints ==
    \/ \E b \in BoardIds, a \in BOOLEAN : CreateSprint(b, a)
    \/ \E b \in BoardIds, s \in 1 .. MaxSprints : SetActiveSprint(b, s)

\* C18: after any sequence of createSprint and setActiveSprint calls, with any
\* board id and any sprint id (also one of another board), every board has at
\* most one sprint with isActive = true.
C18_AtMostOneActive ==
    \A b \in BoardIds : Cardinality(ActiveOf(sprints, b)) <= 1

\* C18 for the second version of the service, which refuses a sprint of another board
C18_CheckedVariant ==
    sprintVariant = "checked" => \A b \in BoardIds : Cardinality(ActiveOf(sprints, b)) <= 1

(***************************************************************************)
(* Sprint service under concurrent calls.  A call runs its statements in   *)
(* one interactive transaction, prisma.$transaction(async (tx) => ...),    *)
(* without an isolation level of its own: readers and other calls see only *)
(* committed rows, each statement reads the rows committed when it starts, *)
(* and a statement that finds a row written by an open transaction waits   *)
(* for it and then looks at that row again (read committed).  Calls that   *)
(* run one after the other are among the behaviours.                       *)
(***************************************************************************)
MaxCalls == 2

Call_(op, sprintId, isActive, pc) ==
    [op |-> op, boardId |-> TheBoard, sprintId |-> sprintId, isActive |-> isActive,
     pc |-> pc, targets |-> {}, writes |-> {}]

\* row i is written by an open transaction other than c
LockedByOther(c, i) ==
    \E d \in 1 .. Len(calls) : d # c /\ calls[d].pc = "deactivated" /\ i \in calls[d].writes

\* the rows of the table with the writes of a transaction applied
committed(tbl, writes) ==
    [i \in 1 .. Len(tbl) |-> IF i \in writes THEN [tbl[i] EXCEPT !.isActive = FALSE] ELSE tbl[i]]

InitSprintTx ==
    /\ sprintVariant \in SprintVariants
    /\ sprints = createSprint(createSprint(<<>>, TheBoard, TRUE), TheBoard, FALSE)
    /\ calls = <<>> /\ lastMove = NoMove
    /\ table = <<>> /\ listed = NoList /\ multi = NoMulti
    /\ issueRows = <<>> /\ creating = <<>> /\ uniqueKey = FALSE
    /\ variant = "BoardPage" /\ view = "backlog" /\ issues = <<>>
    /\ activeId = 0 /\ lastOverIdRef = NoId /\ gesture = NoGesture
    /\ normIn = <<>> /\ normOut = <<>> /\ normOutServer = <<>> /\ normDone = FALSE
    /\ picker = PickerStart("single")
    /\ scope = "null" /\ store = <<>> /\ cache = <<>> /\ muts = <<>>
    /\ fetch = NoFetch /\ otherStale = FALSE /\ panel = NoPanel

CallStep(next) ==
    /\ calls' = next
    /\ UNCHANGED <<sprintVariant, sprints, lastMove, syncVars, exceptServer>>

\* a request for setActiveSprint(boardId, sprintId) arrives
BeginSetActive(sprintId) ==
    /\ Len(calls) < MaxCalls
    /\ CallStep(Append(calls, Call_("setActiveSprint", sprintId, TRUE,
                                    IF sprintVariant = "checked" THEN "check" ELSE "begin")))

\* a request for createSprint(boardId, { name, isActive }) arrives (the board exists)
BeginCreate(isActive) ==
    /\ Len(calls) < MaxCalls
    /\ Len(sprints) + Cardinality({d \in 1 .. Len(calls) :
            calls[d].op = "createSprint" /\ calls[d].pc \notin {"done", "failed"}}) < MaxSprints
    /\ CallStep(Append(calls, Call_("createSprint", 0, isActive, "begin")))

\* second version: prisma.sprint.findFirst({ where: { id: sprintId, boardId } })
CheckSprint(c) ==
    /\ calls[c].pc = "check"
    /\ CallStep([calls EXCEPT ![c].pc =
          IF calls[c].sprintId \in 1 .. Len(sprints)
             /\ sprints[calls[c].sprintId].boardId = calls[c].boardId
          THEN "begin" ELSE "failed"])

\* updateMany starts: it finds the rows that are committed as active
UpdateManyFind(c) ==
    /\ calls[c].pc = "begin"
    /\ calls[c].isActive
    /\ CallStep([calls EXCEPT ![c].pc = "waiting",
                              ![c].targets = ActiveOf(sprints, calls[c].boardId)])

\* updateMany ends: no found row is written by an open transaction any more; the
\* rows that still are active are written
UpdateManyWrite(c) ==
    /\ calls[c].pc = "waiting"
    /\ \A i \in calls[c].targets : ~LockedByOther(c, i)
    /\ CallStep([calls EXCEPT ![c].pc = "deactivated",
                              ![c].writes = {i \in calls[c].targets : sprints[i].isActive}])

\* tx.sprint.update({ where: { id: sprintId }, data: { isActive: true } }) and the
\* commit; a missing row throws and the transaction is rolled back
UpdateAndCommit(c) ==
    /\ calls[c].op = "setActiveSprint" /\ calls[c].pc = "deactivated"
    /\ ~LockedByOther(c, calls[c].sprintId)
    /\ IF calls[c].sprintId \in 1 .. Len(sprints)
       THEN /\ sprints' = [committed(sprints, calls[c].writes)
                               EXCEPT ![calls[c].sprintId].isActive = TRUE]
            /\ calls' = [calls EXCEPT ![c].pc = "done"]
       ELSE /\ sprints' = sprints
            /\ calls' = [calls EXCEPT ![c].pc = "failed"]
    /\ UNCHANGED <<sprintVariant, lastMove, syncVars, exceptServer>>

\* tx.sprint.create({ data: { boardId, name, isActive } }) and the commit
CreateAndCommit(c) ==
    /\ calls[c].op = "createSprint"
    /\ calls[c].pc = IF calls[c].isActive THEN "deactivated" ELSE "begin"
    /\ sprints' = Append(committed(sprints, calls[c].writes),
                         [id |-> Len(sprints) + 1, boardId |-> calls[c].boardId,
                          isActive |-> calls[c].isActive])
    /\ calls' = [calls EXCEPT ![c].pc = "done"]
    /\ UNCHANGED <<sprintVariant, lastMove, syncVars, exceptServer>>

NextSprintTx ==
    \/ \E s \in 1 .. MaxSprints : BeginSetActive(s)
    \/ \E a \in BOOLEAN : BeginCreate(a)
    \/ \E c \in 1 .. Len(calls) : CheckSprint(c)
    \/ \E c \in 1 .. Len(calls) : UpdateManyFind(c)
    \/ \E c \in 1 .. Len(calls) : UpdateManyWrite(c)
    \/ \E c \in 1 .. Len(calls) : UpdateAndCommit(c)
    \/ \E c \in 1 .. Len(calls) : CreateAndCommit(c)

\* C19: on a board with one active sprint, a setActiveSprint call that commits
\* leaves the sprint it names as the only active sprint of the board, and whatever
\* other setActiveSprint and createSprint calls on the board run at the same time,
\* the committed rows, which are what a reader sees, never show the board with no
\* active sprint or with two.
C19_AtomicActivation ==
    /\ [](Cardinality(ActiveOf(sprints, TheBoard)) = 1)
    /\ [][\A c \in 1 .. MaxCalls :
             (/\ c <= Len(calls) /\ calls[c].op = "setActiveSprint"
              /\ calls[c].pc # "done" /\ calls'[c].pc = "done")
                => ActiveOf(sprints', TheBoard) = {calls[c].sprintId}]_vars

(***************************************************************************)
(* Moving an issue between the backlog and a sprint: the request of the    *)
(* client (PATCH /issues/:id) and BoardsService.moveIssue                  *)
(***************************************************************************)
MoveTargets == {NoSprint, "S1", "S2"}

\* the statuses a request names for an issue of a sprint
SprintStatuses == {"in_progress", "done"}

\* where an issue of the board can be: in the backlog or in a column of a sprint
Placements ==
    {[status |-> "backlog", sprintId |-> NoSprint], [status |-> "todo", sprintId |-> "S1"],
     [status |-> "in_progress", sprintId |-> "S1"], [status |-> "done", sprintId |-> "S1"]}

\* where: { boardId, sprintId: sprintId ?? null }
where(tbl, boardId, sprintId) ==
    {i \in 1 .. Len(tbl) : tbl[i].boardId = boardId /\ tbl[i].sprintId = sprintId}

\* findMany: the rows picked by `rows`, each once, in any sequence
findMany(tbl, rows) ==
    {[k \in 1 .. Cardinality(rows) |-> tbl[f[k]]] :
        f \in {g \in [1 .. Cardinality(rows) -> rows] :
                  \A a, b \in 1 .. Cardinality(rows) : a # b => g[a] # g[b]}}

\* orderBy: { status: "asc" }: the statuses in the order of the board's columns
statusRank(s) ==
    CASE s = "backlog" -> 0 [] s = "todo" -> 1 [] s = "in_progress" -> 2 [] s = "done" -> 3

\* findMany({ where: { boardId, sprintId }, orderBy: [{ status: "asc" }, { order: "asc" }] }):
\* what it may return
listByStatus(st, boardId, sprintId) ==
    {r \in findMany(st, where(st, boardId, sprintId)) :
        \A a \in 1 .. (Len(r) - 1) :
            \/ statusRank(r[a].status) < statusRank(r[a + 1].status)
            \/ r[a].status = r[a + 1].status /\ r[a].order <= r[a + 1].order}

\* BoardsService.moveIssue without the early return of a move to the own column
boardsMoveIssueAlways(st, boardId, id, body) ==
    IF findIndex(st, id) < 0 \/ find(st, id).boardId # boardId
    THEN [ok |-> FALSE, store |-> st, results |-> {<<>>}]
    ELSE LET issue == find(st, id)
             toSprintId == body.sprintId
             toStatus == IF "status" \in DOMAIN body THEN body.status
                         ELSE IF toSprintId # NoSprint THEN "todo" ELSE "backlog"
             fromWithout == filterNotId(sortByOrder(SelectSeq(st, LAMBDA x :
                                /\ x.boardId = boardId /\ x.sprintId = issue.sprintId
                                /\ x.status = issue.status)), id)
             toNext == Append(sortByOrder(SelectSeq(st, LAMBDA x :
                                /\ x.boardId = boardId /\ x.sprintId = toSprintId
                                /\ x.status = toStatus)),
                              [issue EXCEPT !.sprintId = toSprintId, !.status = toStatus])
             normalizedFrom == normalizeOrdersServer(fromWithout)
             normalizedTo == normalizeOrdersServer(toNext)
             next == [i \in 1 .. Len(st) |->
                        IF st[i].id = id
                        THEN [st[i] EXCEPT !.sprintId = toSprintId, !.status = toStatus,
                                           !.order = find(normalizedTo, id).order]
                        ELSE IF findIndex(normalizedFrom, st[i].id) >= 0
                        THEN [st[i] EXCEPT !.order = find(normalizedFrom, st[i].id).order]
                        ELSE IF findIndex(normalizedTo, st[i].id) >= 0
                        THEN [st[i] EXCEPT !.order = find(normalizedTo, st[i].id).order]
                        ELSE st[i]]
         IN  [ok |-> TRUE, store |-> next, results |-> listByStatus(next, boardId, toSprintId)]

\* BoardsService.moveIssue: NotFoundException for a missing issue and for an issue
\* of another board; the status defaults to todo in a sprint and to backlog
\* outside; a move to the own column returns the list of the scope; otherwise the
\* issue goes to the end of its new column and both columns are renumbered in one
\* transaction, and the list of the target scope is returned
boardsMoveIssue(st, boardId, id, body) ==
    IF findIndex(st, id) < 0 \/ find(st, id).boardId # boardId
    THEN [ok |-> FALSE, store |-> st, results |-> {<<>>}]
    ELSE LET issue == find(st, id)
             fromSprintId == issue.sprintId
             fromStatus == issue.status
             toSprintId == body.sprintId
             toStatus == IF "status" \in DOMAIN body THEN body.status
                         ELSE IF toSprintId # NoSprint THEN "todo" ELSE "backlog"
             fromList == sortByOrder(SelectSeq(st, LAMBDA x :
                             /\ x.boardId = boardId /\ x.sprintId = fromSprintId
                             /\ x.status = fromStatus))
             toList == sortByOrder(SelectSeq(st, LAMBDA x :
                             /\ x.boardId = boardId /\ x.sprintId = toSprintId
                             /\ x.status = toStatus))
             fromWithout == filterNotId(fromList, id)
             toNext == Append(toList, [issue EXCEPT !.sprintId = toSprintId,
                                                    !.status = toStatus])
             normalizedFrom == normalizeOrdersServer(fromWithout)
             normalizedTo == normalizeOrdersServer(toNext)
             next == [i \in 1 .. Len(st) |->
                        IF st[i].id = id
                        THEN [st[i] EXCEPT !.sprintId = toSprintId, !.status = toStatus,
                                           !.order = find(normalizedTo, id).order]
                        ELSE IF findIndex(normalizedFrom, st[i].id) >= 0
                        THEN [st[i] EXCEPT !.order = find(normalizedFrom, st[i].id).order]
                        ELSE IF findIndex(normalizedTo, st[i].id) >= 0
                        THEN [st[i] EXCEPT !.order = find(normalizedTo, st[i].id).order]
                        ELSE st[i]]
         IN  IF fromSprintId = toSprintId /\ fromStatus = toStatus
             THEN [ok |-> TRUE, store |-> st,
                   results |-> listByStatus(st, boardId, toSprintId)]
             ELSE [ok |-> TRUE, store |-> next,
                   results |-> listByStatus(next, boardId, toSprintId)]

\* what PATCH /issues/:id and PATCH /issues/batch answer: the updated issues
updatedBy(r, id) ==
    [ok |-> r.ok, store |-> r.store,
     results |-> IF r.ok THEN {<<find(r.store, id)>>} ELSE {<<>>}]

InitMove ==
    /\ \E pl \in [1 .. 2 -> Placements] :
          store = [i \in 1 .. 2 |->
                      [id |-> ServerId(i), boardId |-> TheBoard, key |-> BoardKey(i),
                       title |-> <<"a">>, status |-> pl[i].status,
                       order |-> i * ORDER_STEP, sprintId |-> pl[i].sprintId]]
    /\ lastMove = NoMove
    /\ table = <<>> /\ listed = NoList /\ multi = NoMulti
    /\ issueRows = <<>> /\ creating = <<>> /\ uniqueKey = FALSE
    /\ sprintVariant = "checked" /\ sprints = <<>> /\ calls = <<>>
    /\ scope = "null" /\ cache = <<>> /\ muts = <<>>
    /\ fetch = NoFetch /\ otherStale = FALSE /\ panel = NoPanel
    /\ variant = "BoardPage" /\ view = "backlog" /\ issues = <<>>
    /\ activeId = 0 /\ lastOverIdRef = NoId /\ gesture = NoGesture
    /\ normIn = <<>> /\ normOut = <<>> /\ normOutServer = <<>> /\ normDone = FALSE
    /\ picker = PickerStart("single")

\* the table after a request and the record of the request: who sent it (the
\* caller's board is part of the request of BoardsService.moveIssue only), what it
\* answered and the issue before
Moved(via, caller, body, res) ==
    /\ store' = res.store
    /\ \E r \in res.results :
          lastMove' = [via |-> via, boardId |-> caller.boardId, id |-> caller.id,
                       toSprintId |-> body.sprintId,
                       status |-> IF "status" \in DOMAIN body THEN body.status ELSE NoStatus,
                       ok |-> res.ok, result |-> r,
                       before |-> IF findIndex(store, caller.id) >= 0
                                  THEN find(store, caller.id) ELSE <<>>]
    /\ UNCHANGED <<scope, cache, muts, fetch, otherStale, panel,
                   sprintVariant, sprints, calls, exceptServer>>

\* who calls: a page of the board for one of its issues, a page of another board
\* with the id of an issue of this one, a page of the board with an id that no
\* issue has
Callers ==
    {[boardId |-> TheBoard, id |-> store[i].id] : i \in 1 .. Len(store)}
        \cup {[boardId |-> "B2", id |-> store[1].id],
              [boardId |-> TheBoard, id |-> ServerId(Len(store) + 1)]}

\* the request of jiraClient.moveIssue, handled by IssuesService.patch
ClientMove(caller, toSprintId) ==
    Moved("client", caller, [sprintId |-> toSprintId],
          updatedBy(moveIssue(store, caller.id, toSprintId), caller.id))

\* BoardsService.moveIssue with a body of the sprintId alone
ServerMove(caller, toSprintId) ==
    Moved("server", caller, [sprintId |-> toSprintId],
          boardsMoveIssue(store, caller.boardId, caller.id, [sprintId |-> toSprintId]))

\* PATCH /issues/:id with a body of a sprintId and a status, handled by IssuesService.patch
ClientPatch(caller, toSprintId, status) ==
    Moved("patch", caller, [sprintId |-> toSprintId, status |-> status],
          updatedBy(patch(store, caller.id, [sprintId |-> toSprintId, status |-> status]),
                    caller.id))

\* PATCH /issues/batch with one change of a sprintId and a status
ClientBatch(caller, toSprintId, status) ==
    Moved("batch", caller, [sprintId |-> toSprintId, status |-> status],
          updatedBy(batchPatch(store, <<[id |-> caller.id,
                                         patch |-> [sprintId |-> toSprintId,
                                                    status |-> status]]>>),
                    caller.id))

\* BoardsService.moveIssue with a body of a sprintId and a status
ServerMoveStatus(caller, toSprintId, status) ==
    Moved("server", caller, [sprintId |-> toSprintId, status |-> status],
          boardsMoveIssue(store, caller.boardId, caller.id,
                          [sprintId |-> toSprintId, status |-> status]))

NextMove ==
    \/ \E c \in Callers, to \in MoveTargets : ClientMove(c, to)
    \/ \E c \in Callers, to \in MoveTargets : ServerMove(c, to)
    \/ \E c \in Callers, to \in SprintIds, s \in SprintStatuses : ClientPatch(c, to, s)
    \/ \E c \in Callers, to \in SprintIds, s \in SprintStatuses : ClientBatch(c, to, s)
    \/ \E c \in Callers, to \in SprintIds, s \in SprintStatuses : ServerMoveStatus(c, to, s)

\* C20: an issue whose sprintId is changed without a status in the request has
\* its status forced: moved to sprintId = null it is backlog, and a backlog issue
\* moved into a sprint is todo; the issue has the requested sprintId.  This holds
\* for the client's request (PATCH /issues/:id with the sprintId alone) and for
\* BoardsService.moveIssue.
C20_MoveForcesStatus ==
    (lastMove.ok /\ lastMove.status = NoStatus) =>
        /\ find(store, lastMove.id).sprintId = lastMove.toSprintId
        /\ lastMove.toSprintId = NoSprint => find(store, lastMove.id).status = "backlog"
        /\ (lastMove.toSprintId # NoSprint /\ lastMove.before.status = "backlog")
              => find(store, lastMove.id).status = "todo"

\* the client moved a backlog issue into a sprint and the issue is todo there
C20_Witness ==
    /\ lastMove.via = "client" /\ lastMove.ok /\ lastMove.toSprintId = "S1"
    /\ lastMove.before.status = "backlog" /\ lastMove.before.sprintId = NoSprint
    /\ find(store, lastMove.id).status = "todo"
    /\ find(store, lastMove.id).sprintId = "S1"

\* C21: when a request moves a backlog issue into a sprint and names a status,
\* the issue has the status the request names, not todo, whichever of the
\* three operations handles it (IssuesService.patch, IssuesService.batchPatch,
\* BoardsService.moveIssue).
C21_ExplicitStatusWins ==
    (/\ lastMove.ok /\ lastMove.status # NoStatus
     /\ lastMove.before.status = "backlog" /\ lastMove.toSprintId # NoSprint)
        => find(store, lastMove.id).status = lastMove.status

\* C21 for BoardsService.moveIssue alone, whose toStatus is body.status when given
C21_BoardsServiceHonoursStatus ==
    (/\ lastMove.via = "server" /\ lastMove.ok /\ lastMove.status # NoStatus
     /\ lastMove.before.status = "backlog" /\ lastMove.toSprintId # NoSprint)
        => find(store, lastMove.id).status = lastMove.status

\* C22: in every reachable state of the issue table no two issues of the same
\* sprintId and status (the board being the same) have the same order.
C22_UniqueOrderInPartition ==
    \A i, j \in 1 .. Len(store) :
        (i # j /\ store[i].sprintId = store[j].sprintId /\ store[i].status = store[j].status)
            => store[i].order # store[j].order

\* C22 for a table that only BoardsService.moveIssue has written since it was loaded:
\* that operation renumbers both columns it touches
C22_BoardsServiceKeepsUnique ==
    [][(lastMove'.via = "server" /\ C22_UniqueOrderInPartition) => C22_UniqueOrderInPartition']_vars

(***************************************************************************)
(* Listing the issues of a partition: IssuesService.list over the rows of  *)
(* every board.  The database returns rows of equal order in any sequence. *)
(***************************************************************************)
NumRows == 3
ListStatuses == {"todo", "done"}
ListOrders == {ORDER_STEP, 2 * ORDER_STEP, 3 * ORDER_STEP}

\* findMany of the partition without an orderBy
listUnordered(tbl, boardId, sprintId) == findMany(tbl, where(tbl, boardId, sprintId))

\* IssuesService.list: findMany({ where, orderBy: { order: "asc" } }); what it may return
list(tbl, boardId, sprintId) ==
    {r \in findMany(tbl, where(tbl, boardId, sprintId)) :
        \A a \in 1 .. (Len(r) - 1) : r[a].order <= r[a + 1].order}

InitList ==
    /\ table \in [1 .. NumRows -> [boardId : BoardIds, sprintId : SprintIds,
                                    status : ListStatuses, order : ListOrders]]
    /\ listed = NoList
    /\ multi = NoMulti
    /\ issueRows = <<>> /\ creating = <<>> /\ uniqueKey = FALSE
    /\ variant = "BoardPage" /\ view = "backlog" /\ issues = <<>>
    /\ activeId = 0 /\ lastOverIdRef = NoId /\ gesture = NoGesture
    /\ normIn = <<>> /\ normOut = <<>> /\ normOutServer = <<>> /\ normDone = FALSE
    /\ picker = PickerStart("single")
    /\ scope = "null" /\ store = <<>> /\ cache = <<>> /\ muts = <<>>
    /\ fetch = NoFetch /\ otherStale = FALSE /\ panel = NoPanel
    /\ sprintVariant = "checked" /\ sprints = <<>> /\ calls = <<>> /\ lastMove = NoMove

\* GET /issues?boardId=..&sprintId=.. (IssuesController.list: a missing sprintId is null)
List(boardId, sprintId) ==
    /\ \E r \in list(table, boardId, sprintId) :
          listed' = [called |-> TRUE, boardId |-> boardId, sprintId |-> sprintId,
                     result |-> r]
    /\ UNCHANGED <<table, exceptList>>

NextList == \E b \in BoardIds, sc \in SprintIds : List(b, sc)

\* the rows of the last call's scope, and how often a row is in its result
InScope(i) == table[i].boardId = listed.boardId /\ table[i].sprintId = listed.sprintId
Occurrences(row) == Cardinality({k \in 1 .. Len(listed.result) : listed.result[k] = row})
TableOccurrences(row) == Cardinality({i \in 1 .. Len(table) : InScope(i) /\ table[i] = row})

\* the result has exactly the rows of the scope
ExactlyTheScope ==
    /\ Len(listed.result) = Cardinality({i \in 1 .. Len(table) : InScope(i)})
    /\ \A k \in 1 .. Len(listed.result) :
          Occurrences(listed.result[k]) = TableOccurrences(listed.result[k])

\* C23 as stated: list(boardId, sprintId) returns exactly the issues of that board
\* and sprint scope (null being the backlog), sorted by status first (the issues of
\* one status follow each other) and by order ascending within each status.
C23_ListByStatusThenOrder ==
    listed.called =>
        /\ ExactlyTheScope
        /\ \A a, b, c \in 1 .. Len(listed.result) :
              (a < b /\ b < c /\ listed.result[a].status = listed.result[c].status)
                  => listed.result[b].status = listed.result[a].status
        /\ \A a, b \in 1 .. Len(listed.result) :
              (a < b /\ listed.result[a].status = listed.result[b].status)
                  => listed.result[a].order <= listed.result[b].order

\* C23 as the code does it: list(boardId, sprintId) returns exactly the issues of
\* that board and sprint scope (null being the backlog), sorted by order ascending
\* whatever their status.
C23_ListByOrder ==
    listed.called =>
        /\ ExactlyTheScope
        /\ \A a, b \in 1 .. Len(listed.result) :
              a < b => listed.result[a].order <= listed.result[b].order

\* the backlog of B1 was listed with a row of another board in the table: two
\* issues are returned, the done one before the todo one
C23_Witness ==
    /\ listed.called /\ listed.boardId = "B1" /\ listed.sprintId = NoSprint
    /\ Len(listed.result) = 2 /\ listed.result[1].status = "done"
    /\ listed.result[2].status = "todo"
    /\ \E i \in 1 .. Len(table) : table[i].boardId = "B2"

\* the request of this step names an id that no issue has, or an issue of another
\* board than the caller's
Misdirected ==
    /\ lastMove'.via # "none"
    /\ \/ findIndex(store, lastMove'.id) < 0
       \/ find(store, lastMove'.id).boardId # lastMove'.boardId

\* C24: a patch or a move of an issue with an id that does not exist, or of an
\* issue of another board than the caller's, fails (NotFound) and changes no issue.
C24_NotFoundModifiesNothing ==
    [][Misdirected => (~lastMove'.ok /\ store' = store)]_vars

\* C24 for BoardsService.moveIssue, which looks the issue up and compares its board
C24_MoveIssueRefuses ==
    [][(Misdirected /\ lastMove'.via = "server") => (~lastMove'.ok /\ store' = store)]_vars

\* C24 for an id that no issue has: IssuesService.patch (findUniqueOrThrow) and the
\* transaction of batchPatch refuse it as well
C24_MissingIdRefused ==
    [][(lastMove'.via # "none" /\ findIndex(store, lastMove'.id) < 0)
          => (~lastMove'.ok /\ store' = store)]_vars

\* C24 for setActiveSprint in the version that looks the sprint up on the board
C24_SetActiveSprintChecked ==
    [][\A b \in BoardIds, s \in 1 .. MaxSprints :
          (/\ sprintVariant = "checked" /\ SetActiveSprint(b, s)
           /\ ~(s \in 1 .. Len(sprints) /\ sprints[s].boardId = b))
              => sprints' = sprints]_vars

\* C24 for setActiveSprint in either version
C24_SetActiveSprintRefuses ==
    [][\A b \in BoardIds, s \in 1 .. MaxSprints :
          (/\ SetActiveSprint(b, s)
           /\ ~(s \in 1 .. Len(sprints) /\ sprints[s].boardId = b))
              => sprints' = sprints]_vars

\* the column a request of BoardsService.moveIssue names: the status of the body,
\* or todo in a sprint and backlog outside
DestinationStatus(m) ==
    IF m.status # NoStatus THEN m.status
    ELSE IF m.toSprintId # NoSprint THEN "todo" ELSE "backlog"

\* the step is a call of BoardsService.moveIssue for an issue of the caller's board
\* that already is in the sprint and in the status the call names
MoveToOwnColumn ==
    /\ lastMove'.via = "server" /\ lastMove'.ok
    /\ findIndex(store, lastMove'.id) >= 0
    /\ find(store, lastMove'.id).sprintId = lastMove'.toSprintId
    /\ find(store, lastMove'.id).status = DestinationStatus(lastMove')

\* C25: a call of moveIssue whose destination (sprintId, status) is the issue's
\* current one writes nothing, so that sprintId, status and order of every issue
\* are as before, and returns the list of that scope as it is: every issue of the
\* caller's board with that sprintId, once, and no other.
C25_NoOpMove ==
    [][MoveToOwnColumn =>
          /\ store' = store
          /\ Len(lastMove'.result) =
                Cardinality({i \in 1 .. Len(store) :
                    /\ store[i].boardId = lastMove'.boardId
                    /\ store[i].sprintId = lastMove'.toSprintId})
          /\ \A i \in 1 .. Len(store) :
                (store[i].boardId = lastMove'.boardId
                 /\ store[i].sprintId = lastMove'.toSprintId)
                    => \E k \in 1 .. Len(lastMove'.result) : lastMove'.result[k] = store[i]]_vars

\* an issue was moved to the column it is in, which it shares with the other
\* issue and where it is not the last: both are listed, with the orders they had
C25_Witness ==
    /\ lastMove.via = "server" /\ lastMove.ok
    /\ lastMove.before = find(store, lastMove.id)
    /\ lastMove.toSprintId = lastMove.before.sprintId
    /\ DestinationStatus(lastMove) = lastMove.before.status
    /\ Len(lastMove.result) = 2
    /\ lastMove.result[1] = lastMove.before
    /\ lastMove.result[2].status = lastMove.before.status
    /\ lastMove.result[2].order = 2 * ORDER_STEP

\* the promise of request c resolves in this step, its signal not aborted, and the
\* trimmed debounced query of the request is that of the request before it
RefreshAnswers(c) ==
    /\ c > 1 /\ c <= Len(picker.reqs) /\ Len(picker'.reqs) = Len(picker.reqs)
    /\ picker.reqs[c].status = "inflight" /\ picker'.reqs[c].status = "resolved"
    /\ ~picker.reqs[c].aborted
    /\ picker.reqs[c].q = picker.reqs[c - 1].q

\* C26: in both pickers the results of a request whose effective (debounced,
\* trimmed) query is the one of the request before it leave the active option
\* index as the user set it; the index goes back to the first option only when
\* the effective query changed.
C26_HighlightKeptOnRefresh ==
    [][\A c \in 1 .. Len(picker.reqs) :
          RefreshAnswers(c) => picker'.activeIndex = picker.activeIndex]_vars

\* C26 for the multi-select picker, whose effect compares the query with lastQueryRef
C26_MultiKeepsHighlight ==
    [][\A c \in 1 .. Len(picker.reqs) :
          (picker.kind = "multi" /\ RefreshAnswers(c))
              => picker'.activeIndex = picker.activeIndex]_vars

(***************************************************************************)
(* Selection side of the multi-select picker: useEntityMultiPicker and the *)
(* handlers EntityMultiPicker wires to it.  The selection is controlled:   *)
(* onChange(next) makes the parent render the picker with value = next.    *)
(* An id is a number or a string; String(id) forgets which.  The search    *)
(* effect is the one of the section above; here it acts through what it    *)
(* writes (items, error, loading, activeIndex).                            *)
(***************************************************************************)
MaxCreates == 1           \* calls of onCreate in one behaviour
MaxTimers == 1            \* pending timers of the label flash

CreateError == "Failed to create"
NoMax == -1               \* maxSelected is undefined
MaxSelectedValues == {NoMax, 2}

NumberId(v) == [t |-> "number", v |-> v]
StringId(v) == [t |-> "string", v |-> v]

\* String(id)
String(id) == id.v

\* what the search collaborator knows: two entities whose ids differ only in
\* type and whose labels differ only in case, and a third one
People ==
    {[id |-> NumberId("1"), label |-> <<"a", "b">>],
     [id |-> StringId("1"), label |-> <<"A", "B">>],
     [id |-> NumberId("2"), label |-> <<"c", "d">>]}

SearchResults ==
    {<<>>,
     <<[id |-> NumberId("1"), label |-> <<"a", "b">>]>>,
     <<[id |-> StringId("1"), label |-> <<"A", "B">>],
       [id |-> NumberId("2"), label |-> <<"c", "d">>]>>}

\* ids the parent's onCreate may give to the entity it creates
CreatedIds == {StringId("new"), StringId("2")}

\* what the user may type
Typed == {<<>>, <<"x">>, <<"x", "y">>, <<"A", "B", " ">>}

\* String.prototype.toLowerCase
toLowerCase(s) ==
    [i \in 1 .. Len(s) |->
        CASE s[i] = "A" -> "a" [] s[i] = "B" -> "b" [] OTHER -> s[i]]

\* no entity
NoEntity == [id |-> StringId(""), label |-> <<>>]

\* the last step called none of the selection handlers
NoHandler == [op |-> "none", item |-> NoEntity, onChange |-> FALSE]

\* the hook after its first render
MultiStart(allowCreate, hasOnCreate, maxSelected) ==
    [mounted |-> TRUE, allowCreate |-> allowCreate, hasOnCreate |-> hasOnCreate,
     maxSelected |-> maxSelected, value |-> <<>>, open |-> FALSE, input |-> <<>>,
     items |-> <<>>, loading |-> FALSE, error |-> NoError, activeIndex |-> 0,
     timers |-> 0, creates |-> <<>>, hasCreateRow |-> FALSE, call |-> NoHandler]

\* selectedIds of a render with this value
selectedIds(value) == {String(value[i].id) : i \in 1 .. Len(value)}

\* a capacity test that always lets one more in
canSelectMoreAlways(m, value) == TRUE

canSelectMore(m, value) ==
    IF m.maxSelected = NoMax THEN TRUE ELSE Len(value) < m.maxSelected

visibleItems(m) ==
    SelectSeq(m.items, LAMBDA it : String(it.id) \notin selectedIds(m.value))

trimmed(m) == trim(m.input)

alreadySelectedByLabel(m) ==
    LET t == toLowerCase(trimmed(m))
    IN  IF t = <<>> THEN FALSE
        ELSE \E i \in 1 .. Len(m.value) : toLowerCase(trim(m.value[i].label)) = t

\* a create row that does not look at the error
canCreateDespiteError(m) ==
    /\ m.open
    /\ m.allowCreate
    /\ m.hasOnCreate
    /\ canSelectMore(m, m.value)
    /\ Len(trimmed(m)) >= MinChars
    /\ ~alreadySelectedByLabel(m)
    /\ Len(visibleItems(m)) = 0

canCreate(m) ==
    /\ m.open
    /\ m.allowCreate
    /\ m.hasOnCreate
    /\ canSelectMore(m, m.value)
    /\ Len(trimmed(m)) >= MinChars
    /\ m.error = NoError
    /\ ~alreadySelectedByLabel(m)
    /\ Len(visibleItems(m)) = 0

\* the render that follows every state change: hasCreateRow = canCreate
renderMulti(m) == [m EXCEPT !.hasCreateRow = canCreate(m)]

totalOptions(m) == Len(visibleItems(m)) + (IF m.hasCreateRow THEN 1 ELSE 0)

resetResultsMulti(m) ==
    [m EXCEPT !.items = <<>>, !.error = NoError, !.loading = FALSE, !.activeIndex = 0]

\* an add that does not look at the selected ids
addAgain(m, value, item) ==
    IF ~canSelectMore(m, value) THEN [m EXCEPT !.call.onChange = FALSE]
    ELSE resetResultsMulti([m EXCEPT !.value = value \o <<item>>,
                                !.call.onChange = TRUE,
                                !.input = item.label,
                                !.timers = m.timers + 1])

\* add(item) of the render whose selection was `value`
add(m, value, item) ==
    IF ~canSelectMore(m, value) THEN [m EXCEPT !.call.onChange = FALSE]
    ELSE IF String(item.id) \in selectedIds(value) THEN [m EXCEPT !.call.onChange = FALSE]
    ELSE resetResultsMulti([m EXCEPT !.value = value \o <<item>>,
                                !.call.onChange = TRUE,
                                !.input = item.label,
                                !.timers = m.timers + 1])

removeById(m, id) ==
    [m EXCEPT !.value = SelectSeq(m.value, LAMBDA v : String(v.id) # String(id)),
              !.call.onChange = TRUE]

clearAll(m) ==
    [resetResultsMulti(m) EXCEPT !.value = <<>>, !.call.onChange = TRUE,
                            !.input = <<>>, !.open = FALSE]

\* createAndAdd up to its await: the guards, and the call of onCreate(name)
createAndAdd(m) ==
    IF ~m.hasOnCreate \/ ~canSelectMore(m, m.value) \/ trimmed(m) = <<>> THEN m
    ELSE [m EXCEPT !.creates =
              Append(m.creates, [name |-> trimmed(m), value |-> m.value,
                                 status |-> "pending"])]

\* a catch block that also drops the selection
createFailedDropsSelection(m, c) ==
    [m EXCEPT !.creates[c].status = "rejected", !.error = CreateError,
              !.value = <<>>, !.call.onChange = TRUE]

\* createAndAdd after its await, the promise rejected: the catch block
createFailed(m, c) ==
    [m EXCEPT !.creates[c].status = "rejected", !.error = CreateError,
              !.call.onChange = FALSE]

\* createAndAdd after its await, the promise resolved: add(created) of the
\* render that called createAndAdd
created(m, c, item) ==
    add([m EXCEPT !.creates[c].status = "resolved"], m.creates[c].value, item)

getActiveOption(m) ==
    LET vis == visibleItems(m)
        i == IF m.hasCreateRow THEN m.activeIndex ELSE m.activeIndex + 1
    IN  IF m.hasCreateRow /\ m.activeIndex = 0 THEN [type |-> "create", item |-> NoEntity]
        ELSE IF i >= 1 /\ i <= Len(vis) THEN [type |-> "item", item |-> vis[i]]
        ELSE [type |-> "none", item |-> NoEntity]

\* a step that calls none of add, removeById, clearAll and createAndAdd
other(m) == [m EXCEPT !.call = NoHandler]

\* the handler `op` starts, called with `item`
called(m, op, item) == [m EXCEPT !.call = [op |-> op, item |-> item, onChange |-> FALSE]]

InitSelect ==
    /\ multi \in {MultiStart(a, h, x) : a \in BOOLEAN, h \in BOOLEAN, x \in MaxSelectedValues}
    /\ table = <<>> /\ listed = NoList
    /\ issueRows = <<>> /\ creating = <<>> /\ uniqueKey = FALSE
    /\ variant = "BoardPage" /\ view = "backlog" /\ issues = <<>>
    /\ activeId = 0 /\ lastOverIdRef = NoId /\ gesture = NoGesture
    /\ normIn = <<>> /\ normOut = <<>> /\ normOutServer = <<>> /\ normDone = FALSE
    /\ picker = PickerStart("single")
    /\ scope = "null" /\ store = <<>> /\ cache = <<>> /\ muts = <<>>
    /\ fetch = NoFetch /\ otherStale = FALSE /\ panel = NoPanel
    /\ sprintVariant = "checked" /\ sprints = <<>> /\ calls = <<>> /\ lastMove = NoMove

\* the control or the input is clicked or focused
OpenList ==
    /\ ~multi.open
    /\ multi' = renderMulti([other(multi) EXCEPT !.open = TRUE])
    /\ UNCHANGED exceptSelect

\* Escape, or a mouse press outside of the picker
CloseList ==
    /\ multi.open
    /\ multi' = renderMulti([other(multi) EXCEPT !.open = FALSE])
    /\ UNCHANGED exceptSelect

\* the input's onChange; the input is disabled when no more can be selected
TypeInput(next) ==
    /\ canSelectMore(multi, multi.value)
    /\ next # multi.input
    /\ LET m == [other(multi) EXCEPT !.input = next, !.open = TRUE]
       IN  multi' = renderMulti(IF Len(trim(next)) < MinChars THEN resetResultsMulti(m) ELSE m)
    /\ UNCHANGED exceptSelect

\* the timer of the label flash fires
FlashEnds ==
    /\ multi.timers > 0
    /\ multi' = renderMulti([other(multi) EXCEPT
                            !.input = <<>>, !.timers = multi.timers - 1])
    /\ UNCHANGED exceptSelect

\* the search effect dispatches a request
SearchStarts ==
    /\ multi.open /\ Len(trimmed(multi)) >= MinChars /\ ~multi.loading
    /\ multi' = renderMulti([other(multi) EXCEPT
                            !.loading = TRUE, !.error = NoError])
    /\ UNCHANGED exceptSelect

\* the request of the search effect resolves; the highlight goes back to the
\* first option when the query was a new one
SearchResolves(res, isNewQuery) ==
    /\ multi.loading
    /\ multi' = renderMulti([other(multi) EXCEPT
                            !.items = res, !.loading = FALSE,
                            !.activeIndex = IF isNewQuery THEN 0 ELSE @])
    /\ UNCHANGED exceptSelect

\* the request of the search effect rejects
SearchRejects ==
    /\ multi.loading
    /\ multi' = renderMulti([other(multi) EXCEPT
                            !.error = LoadError, !.items = <<>>, !.activeIndex = 0,
                            !.loading = FALSE])
    /\ UNCHANGED exceptSelect

\* the search effect finds the debounced query below the threshold
SearchClears ==
    /\ multi.open /\ Len(trimmed(multi)) < MinChars
    /\ multi.items # <<>> \/ multi.error # NoError \/ multi.loading \/ multi.activeIndex # 0
    /\ multi' = renderMulti(resetResultsMulti(other(multi)))
    /\ UNCHANGED exceptSelect

\* ArrowDown in the open list
ArrowDown ==
    /\ multi.open
    /\ LET last == IF totalOptions(multi) - 1 > 0 THEN totalOptions(multi) - 1 ELSE 0
           i == IF multi.activeIndex + 1 < last THEN multi.activeIndex + 1 ELSE last
       IN  /\ i # multi.activeIndex
           /\ multi' = renderMulti([other(multi) EXCEPT !.activeIndex = i])
    /\ UNCHANGED exceptSelect

\* a mouse press on the option of a visible item
PressItem(k) ==
    /\ multi.open
    /\ k \in 1 .. Len(visibleItems(multi))
    /\ multi.timers < MaxTimers
    /\ LET item == visibleItems(multi)[k]
       IN  multi' = renderMulti(add(called(multi, "add", item), multi.value, item))
    /\ UNCHANGED exceptSelect

\* a mouse press on the create row
PressCreate ==
    /\ multi.open /\ multi.hasCreateRow /\ ~multi.loading
    /\ Len(multi.creates) < MaxCreates
    /\ multi' = renderMulti(createAndAdd(called(multi, "createAndAdd", NoEntity)))
    /\ UNCHANGED exceptSelect

\* Enter in the open list
Enter ==
    /\ multi.open
    /\ LET opt == getActiveOption(multi)
       IN  \/ /\ opt.type = "create" /\ ~multi.loading
              /\ Len(multi.creates) < MaxCreates
              /\ multi' = renderMulti(createAndAdd(called(multi, "createAndAdd", NoEntity)))
           \/ /\ opt.type = "item"
              /\ multi.timers < MaxTimers
              /\ multi' = renderMulti(add(called(multi, "add", opt.item), multi.value, opt.item))
    /\ UNCHANGED exceptSelect

\* Backspace in the empty input removes the entity selected last
Backspace ==
    /\ trimmed(multi) = <<>> /\ Len(multi.value) > 0
    /\ LET last == multi.value[Len(multi.value)]
       IN  multi' = renderMulti(removeById(called(multi, "removeById", last), last.id))
    /\ UNCHANGED exceptSelect

\* the remove button of a chip
RemoveChip(k) ==
    /\ k \in 1 .. Len(multi.value)
    /\ multi' = renderMulti(removeById(called(multi, "removeById", multi.value[k]),
                                  multi.value[k].id))
    /\ UNCHANGED exceptSelect

\* the clear button, enabled while something is selected
ClearAll ==
    /\ Len(multi.value) > 0
    /\ multi' = renderMulti(clearAll(called(multi, "clearAll", NoEntity)))
    /\ UNCHANGED exceptSelect

\* the promise of onCreate resolves with the entity the parent created
CreateResolves(c, id) ==
    /\ c \in 1 .. Len(multi.creates)
    /\ multi.creates[c].status = "pending"
    /\ multi.timers < MaxTimers
    /\ LET item == [id |-> id, label |-> multi.creates[c].name]
       IN  multi' = renderMulti(created(called(multi, "created", item), c, item))
    /\ UNCHANGED exceptSelect

\* the promise of onCreate rejects
CreateRejects(c) ==
    /\ c \in 1 .. Len(multi.creates)
    /\ multi.creates[c].status = "pending"
    /\ multi' = renderMulti(createFailed(called(multi, "createFailed", NoEntity), c))
    /\ UNCHANGED exceptSelect

NextSelect ==
    \/ OpenList
    \/ CloseList
    \/ \E next \in Typed : TypeInput(next)
    \/ FlashEnds
    \/ SearchStarts
    \/ \E res \in SearchResults, isNewQuery \in BOOLEAN : SearchResolves(res, isNewQuery)
    \/ SearchRejects
    \/ SearchClears
    \/ ArrowDown
    \/ \E k \in 1 .. Len(visibleItems(multi)) : PressItem(k)
    \/ PressCreate
    \/ Enter
    \/ Backspace
    \/ \E k \in 1 .. Len(multi.value) : RemoveChip(k)
    \/ ClearAll
    \/ \E c \in 1 .. MaxCreates, id \in CreatedIds : CreateResolves(c, id)
    \/ \E c \in 1 .. MaxCreates : CreateRejects(c)

AddOfSelected ==
    /\ multi.mounted /\ multi' # multi
    /\ \/ /\ multi'.call.op = "add"
          /\ String(multi'.call.item.id) \in selectedIds(multi.value)
       \/ /\ multi'.call.op = "created"
          /\ \E c \in 1 .. Len(multi.creates) :
                /\ multi.creates[c].status = "pending"
                /\ multi'.creates[c].status = "resolved"
                /\ String(multi'.call.item.id) \in selectedIds(multi.creates[c].value)

\* C28: add(e) for an entity whose id, compared as a string, is already selected
\* does not call onChange and changes no state of the picker: selection, input,
\* results, error, highlight and open list are as before, so that the selection
\* after the second add of an entity is the one after the first.
C28_AddIdempotent ==
    [][AddOfSelected =>
          /\ ~multi'.call.onChange
          /\ [multi' EXCEPT !.call = multi.call, !.creates = multi.creates] = multi]_vars

\* onCreate answered with an entity whose id is, as a string, the id of a selected
\* one of another type, while one more could be selected: nothing was added
C28_Witness ==
    /\ multi.mounted
    /\ multi.call.op = "created" /\ ~multi.call.onChange
    /\ multi.call.item.id = StringId("2")
    /\ Len(multi.value) = 1 /\ multi.value[1].id = NumberId("2")
    /\ canSelectMore(multi, multi.value)
    /\ multi.input = <<"x", "y">>

\* the promise of the c-th call of onCreate rejects in this step
CreateRejected(c) ==
    /\ multi.creates[c].status = "pending"
    /\ multi'.creates[c].status = "rejected"

\* C29: when the creator callback of an inline create rejects, the picker
\* records the error "Failed to create" and the selection stays as it was:
\* onChange is not called and no selected entity is removed.
C29_CreateFailureKeepsSelection ==
    [][multi.mounted =>
          \A c \in 1 .. Len(multi.creates) :
              CreateRejected(c) =>
                  /\ multi'.error = CreateError
                  /\ multi'.value = multi.value
                  /\ ~multi'.call.onChange]_vars

\* an inline create failed while an entity was selected: the error is recorded
\* and the entity is still selected
C29_Witness ==
    /\ multi.mounted
    /\ multi.call.op = "createFailed"
    /\ multi.error = CreateError
    /\ Len(multi.value) = 1
    /\ multi.creates[1].status = "rejected"

\* batch mutation a fails in this step, and batch mutation b was started after it
EarlierFails(a, b) ==
    /\ a < b /\ b <= Len(muts)
    /\ muts[b].kind = "batch"
    /\ Settles(a, "batch", "error")

\* C30: overlapping batch mutations on one partition follow last-writer-wins in
\* the cache: the values an issue has from the most recently started mutation
\* that patched it stay until the partition is fetched again; in particular the
\* failure and rollback of an earlier mutation leaves every value that the cache
\* shows from a mutation started after it.
C30_LastWriterWins ==
    [][\A a \in 1 .. MaxMutations, b \in 1 .. MaxMutations :
          EarlierFails(a, b) =>
              \A k \in 1 .. Len(muts[b].arg.changes) :
                  PatchShown(cache, muts[b].arg.changes[k])
                      => PatchShown(cache', muts[b].arg.changes[k])]_vars

\* C30 for the success of the earlier mutation: the batch patch has no onSuccess,
\* so the cache keeps the values of the later one
C30_SuccessKeepsLater ==
    [][\A a \in 1 .. MaxMutations, b \in 1 .. MaxMutations :
          (/\ a < b /\ b <= Len(muts)
           /\ muts[b].kind = "batch"
           /\ Settles(a, "batch", "success")) => cache' = cache]_vars

\* no mutation of the partition is in flight and no fetch of its list is under way
Quiet ==
    /\ \A m \in 1 .. Len(muts) : muts[m].status # "pending"
    /\ fetch.stage = "idle"

\* C31: once every mutation of the partition has settled and the refetch that the
\* last invalidation requested has completed, the cached list is the store's list
\* of the partition, whatever overlapping optimistic writes and rollbacks did to
\* the cache before; and, mutation calls and list requests ending eventually,
\* that state is reached again and again.
C31_Reconciled ==
    /\ [](Quiet => cache = listIssues(store, scope))
    /\ []<>Quiet

\* two overlapping mutations have settled, the first with an error (its rollback
\* wrote the list of before both), the second committed by the server; the list
\* was fetched again and the cache holds what the second one stored
C31_Witness ==
    /\ Quiet /\ Len(muts) = 2
    /\ muts[1].status = "error" /\ muts[1].server = "none"
    /\ muts[2].status = "success" /\ muts[2].prev # muts[1].prev
    /\ store # SeedStore(scope)
    /\ cache = listIssues(store, scope)

\* C32: when a mutation of the partition starts, a read of its list that is in
\* flight is cancelled: the snapshot the mutation keeps is the cached list of that
\* moment, the optimistic list is written, and no read is under way afterwards, so
\* that the answer of the cancelled read is not written over the optimistic list
\* (an answer delivered later is that of a read requested after the write).
C32_CancelBeforeMutate ==
    [][\A kind \in MutationKinds :
          Starts(kind) =>
              /\ muts'[Len(muts')].prev = cache
              /\ fetch'.stage = "idle"
              /\ fetch'.data = <<>>]_vars

\* a drag gesture was committed and its call succeeded, which requested the list
\* again; a second mutation started before the answer was delivered (its snapshot
\* is not the stored list): the read is gone and the optimistic list is cached
C32_Witness ==
    /\ Len(muts) = 2
    /\ muts[1].kind = "batch" /\ muts[1].status = "success"
    /\ muts[2].status = "pending" /\ muts[2].server = "none"
    /\ muts[2].prev # listIssues(store, scope)
    /\ fetch.stage = "idle"
    /\ cache # muts[2].prev

\* C33: once a create has succeeded and its placeholder was replaced by the issue
\* the server created, the tmp_ placeholder is in the cached list no more, whatever
\* happens later; in particular the rollback of a mutation that overlapped the
\* create does not bring it back.
C33_PlaceholderGone ==
    \A m \in 1 .. Len(muts) :
        (muts[m].kind = "create" /\ muts[m].status = "success")
            => muts[m].tempId \notin CacheIds

\* C33 while no other mutation is rolled back: the placeholder of a create that
\* succeeded stays out of the cached list
C33_GoneUnlessRollback ==
    (\A n \in 1 .. Len(muts) : muts[n].status # "error") => C33_PlaceholderGone

\* the promise of the c-th call of onCreate resolves in this step
CreateResolved(c) ==
    /\ multi.creates[c].status = "pending"
    /\ multi'.creates[c].status = "resolved"

\* C34: when an inline create resolves, the capacity and the already-selected
\* test are made against the selection of that moment, and the selection passed
\* to onChange is that selection followed by the created entity: what was added
\* or removed while the create was pending is not lost.
C34_CreateAddsToCurrent ==
    [][multi.mounted =>
          \A c \in 1 .. Len(multi.creates) :
              CreateResolved(c) =>
                  /\ multi'.call.onChange <=>
                        /\ canSelectMore(multi, multi.value)
                        /\ String(multi'.call.item.id) \notin selectedIds(multi.value)
                  /\ multi'.call.onChange
                        => multi'.value = Append(multi.value, multi'.call.item)]_vars

\* C34 for a create during which the selection did not change
C34_CreateAddsToUnchanged ==
    [][multi.mounted =>
          \A c \in 1 .. Len(multi.creates) :
              (CreateResolved(c) /\ multi.creates[c].value = multi.value) =>
                  /\ multi'.call.onChange <=>
                        /\ canSelectMore(multi, multi.value)
                        /\ String(multi'.call.item.id) \notin selectedIds(multi.value)
                  /\ multi'.call.onChange
                        => multi'.value = Append(multi.value, multi'.call.item)]_vars

\* C35: in every reachable state of either picker, activeIndex is a position of
\* the displayed option list: 0 <= activeIndex <= max(optionCount - 1, 0), where
\* optionCount is the number of visible results plus the create row (nothing is
\* selected and no create row is offered here, so the options are the results).
C35_ActiveIndexValid ==
    /\ picker.activeIndex >= 0
    /\ picker.activeIndex <= Max(Len(picker.items) - 1, 0)

\* C35 for the single-select picker while no request has failed
C35_SingleValidWithoutFailure ==
    (/\ picker.kind = "single"
     /\ \A c \in 1 .. Len(picker.reqs) : picker.reqs[c].status # "rejected")
        => C35_ActiveIndexValid

\* C36: in every reachable state of a picker, loading is true exactly when a
\* dispatched search request has neither completed nor been cancelled; in
\* particular loading does not stay true after the only outstanding request
\* was cancelled.
C36_LoadingIffLive ==
    picker.loading <=>
        \E c \in 1 .. Len(picker.reqs) :
            picker.reqs[c].status = "inflight" /\ ~picker.reqs[c].aborted

\* C36 for the single-select picker, whose close() sets loading to false
C36_SingleLoadingIffLive ==
    picker.kind = "single" => C36_LoadingIffLive

\* C36 for the open multi-select picker
C36_OpenMultiLoadingIffLive ==
    (picker.kind = "multi" /\ picker.open) => C36_LoadingIffLive

\* C37: in every reachable state of the store an issue has the status backlog
\* exactly when its sprintId is null, whatever create, patch, batchPatch and
\* moveIssue calls were served; hence every issue has a column in the view of
\* its scope.
C37_BacklogIffNoSprint ==
    \A i \in 1 .. Len(store) :
        store[i].status = "backlog" <=> store[i].sprintId = NoSprint

\* the status the dragged issue has in the list, and the ids of a column of it
StatusIn(rows, id) == rows[CHOOSE i \in 1 .. Len(rows) : rows[i].id = id].status
ColumnIds(rows, s) == {rows[i].id : i \in {j \in 1 .. Len(rows) : rows[j].status = s}}

\* C38: a drag-end patches only issues of the dragged issue's source column and
\* of the destination column, each at most once; after the patch set is applied
\* to the list, the only issue whose status can differ from before is the moved
\* one, and the list holds the same issue ids as before.
C38_PatchFrame ==
    (gesture.ended /\ gesture.called) =>
        LET from == StatusIn(gesture.prev, gesture.a)
            to == StatusIn(gPatched, gesture.a)
        IN  /\ gPatchIds \subseteq ColumnIds(gesture.prev, from) \cup ColumnIds(gesture.prev, to)
            /\ \A i, j \in 1 .. Len(gesture.changes) :
                  gesture.changes[i].id = gesture.changes[j].id => i = j
            /\ Len(gPatched) = Len(gesture.prev)
            /\ \A i \in 1 .. Len(gesture.prev) :
                  /\ gPatched[i].id = gesture.prev[i].id
                  /\ gPatched[i].id # gesture.a => gPatched[i].status = gesture.prev[i].status
            /\ issues = gPatched

\* an issue was moved from a column it shared with another issue to the column of
\* the third: the three are patched, and only the moved one changed its status
C38_Witness ==
    /\ gesture.ended /\ gesture.called
    /\ Len(gesture.changes) = 3
    /\ StatusIn(gPatched, gesture.a) # StatusIn(gesture.prev, gesture.a)
    /\ Cardinality(ColumnIds(gesture.prev, StatusIn(gesture.prev, gesture.a))) = 2
    /\ Cardinality(ColumnIds(gesture.prev, StatusIn(gPatched, gesture.a))) = 1

\* C39: whatever add, createAndAdd, removeById, Backspace and clearAll were
\* called, from a selection that is empty at first, every selection passed to
\* onChange (and so the selection of every state) has at most maxSelected
\* entities, when maxSelected is set, and no two entities with the same id, ids
\* compared as strings.
C39_SelectionBounded ==
    multi.mounted =>
        /\ multi.maxSelected # NoMax => Len(multi.value) <= multi.maxSelected
        /\ \A i, j \in 1 .. Len(multi.value) :
              String(multi.value[i].id) = String(multi.value[j].id) => i = j

\* an inline create resolved and its entity took the last free place; the first
\* entity was selected after the create row was pressed
C39_Witness ==
    /\ multi.mounted /\ multi.maxSelected = 2
    /\ Len(multi.value) = 2
    /\ multi.call.op = "created" /\ multi.call.onChange
    /\ multi.value[2] = multi.call.item
    /\ multi.creates[1].value = <<multi.value[1]>>

(***************************************************************************)
(* Creating issues: IssuesService.create under concurrent calls.  A call   *)
(* awaits prisma.issue.count of its board, builds the key from the number  *)
(* it got and then awaits prisma.issue.create; the two statements are not  *)
(* in a transaction, so statements of other calls run between them.  The   *)
(* key `${boardId}-${count + 1}` is the pair of its two parts.  Whether    *)
(* the table has a unique index on key is the schema's matter, not the     *)
(* service's: a table with and a table without the index are modelled.     *)
(***************************************************************************)
MaxCreateCalls == 3

\* prisma.issue.count({ where: { boardId } })
count(tbl, boardId) == Cardinality({i \in 1 .. Len(tbl) : tbl[i].boardId = boardId})

\* const key = `${input.boardId}-${count + 1}`
keyOf(boardId, n) == <<boardId, n + 1>>

\* the unique index refuses a row whose key is in the table
refused(tbl, key) == uniqueKey /\ \E i \in 1 .. Len(tbl) : tbl[i].key = key

InitCreate ==
    /\ issueRows = <<>> /\ creating = <<>> /\ uniqueKey \in BOOLEAN
    /\ table = <<>> /\ listed = NoList /\ multi = NoMulti
    /\ variant = "BoardPage" /\ view = "backlog" /\ issues = <<>>
    /\ activeId = 0 /\ lastOverIdRef = NoId /\ gesture = NoGesture
    /\ normIn = <<>> /\ normOut = <<>> /\ normOutServer = <<>> /\ normDone = FALSE
    /\ picker = PickerStart("single")
    /\ scope = "null" /\ store = <<>> /\ cache = <<>> /\ muts = <<>>
    /\ fetch = NoFetch /\ otherStale = FALSE /\ panel = NoPanel
    /\ sprintVariant = "checked" /\ sprints = <<>> /\ calls = <<>> /\ lastMove = NoMove

\* POST /issues arrives and the count of its first statement is taken
CountIssues(boardId) ==
    /\ Len(creating) < MaxCreateCalls
    /\ creating' = Append(creating, [boardId |-> boardId, pc |-> "counted",
                                     count |-> count(issueRows, boardId),
                                     key |-> keyOf(boardId, count(issueRows, boardId))])
    /\ UNCHANGED <<issueRows, uniqueKey, exceptCreate>>

\* prisma.issue.create of call c: the row is inserted, or the index refuses it and
\* the call rejects
InsertIssue(c) ==
    /\ creating[c].pc = "counted"
    /\ IF refused(issueRows, creating[c].key)
       THEN /\ creating' = [creating EXCEPT ![c].pc = "rejected"]
            /\ UNCHANGED issueRows
       ELSE /\ creating' = [creating EXCEPT ![c].pc = "created"]
            /\ issueRows' = Append(issueRows, [boardId |-> creating[c].boardId,
                                               key |-> creating[c].key, call |-> c])
    /\ UNCHANGED <<uniqueKey, exceptCreate>>

NextCreate ==
    \/ \E b \in BoardIds : CountIssues(b)
    \/ \E c \in 1 .. Len(creating) : InsertIssue(c)

\* C40: whatever the interleaving of concurrent create calls on a board, no two
\* issues of the board have the same key.
C40_KeysUnique ==
    \A i, j \in 1 .. Len(issueRows) :
        (i # j /\ issueRows[i].boardId = issueRows[j].boardId)
            => issueRows[i].key # issueRows[j].key

\* C40 for a call whose count is still the count of its board when its row is
\* inserted (no other call of the board inserted in between): its key is new
C40_FreshCountKeepsUnique ==
    [][\A c \in 1 .. Len(creating) :
          (/\ InsertIssue(c) /\ C40_KeysUnique
           /\ creating[c].count = count(issueRows, creating[c].boardId))
              => C40_KeysUnique']_vars

\* C40 for a table with a unique index on key
C40_UniqueWithIndex == uniqueKey => C40_KeysUnique

\* no create call is refused by the index: violated on a table with the index by
\* the interleaving that gives two rows one key on a table without it
C40_NoCallRefused ==
    \A c \in 1 .. Len(creating) : creating[c].pc # "rejected"

(***************************************************************************)
(* Specifications                                                          *)
(***************************************************************************)
SpecBoard == InitBoard /\ [][NextBoard]_vars

SpecNormalize == InitNormalize /\ [][NextNormalize]_vars

SpecPicker == InitPicker /\ [][NextPicker]_vars
SpecSync == InitSync /\ [][NextSync]_vars
\* mutation calls and list requests come to an end
SpecSyncLive ==
    /\ InitSync /\ [][NextSync]_vars
    /\ WF_vars(\E m \in 1 .. Len(muts) : Succeed(m) \/ Fail(m))
    /\ WF_vars(FetchServe)
    /\ WF_vars(FetchDeliver)
SpecPanel == InitPanel /\ [][NextPanel]_vars
SpecSprints == InitSprints /\ [][NextSprints]_vars
SpecSprintTx == InitSprintTx /\ [][NextSprintTx]_vars
SpecMove == InitMove /\ [][NextMove]_vars
SpecList == InitList /\ [][NextList]_vars
SpecSelect == InitSelect /\ [][NextSelect]_vars
SpecCreate == InitCreate /\ [][NextCreate]_vars
====
